---- MODULE Spec2Model ----
(***************************************************************************)
(* A model of the KVT in-memory transactional key-value engine             *)
(* (kvt_mem.h / kvt_mem.cpp: the NoCC, Simple, 2PL and OCC managers), of   *)
(* the transaction facade (KVTTransactionManager) and of the graph adapter *)
(* (KVTStorageClient) built on it.                                         *)
(*                                                                         *)
(* Every engine operation is a pure operator on an engine record           *)
(*   [data, txs, next_tx_id, current_tx_id, write_set, delete_set, tables, *)
(*    alive]                                                               *)
(* returning [eng, err, value]; the actions apply one operator per step,   *)
(* which is the granularity of the engine-wide mutex (global_mutex).       *)
(***************************************************************************)
EXTENDS Integers, Sequences, FiniteSets, TLC

VARIABLES
    strategy,        \* which KVTWrapper subclass g_kvt_manager holds
    table_data,      \* composite key <<table_id, key>> -> Entry [data, metadata]
    transactions,    \* KVTMemManagerBase::transactions: tx_id -> Transaction
    next_tx_id,      \* next_tx_id
    current_tx_id,   \* KVTMemManagerSimple::current_tx_id
    write_set,       \* KVTMemManagerSimple::write_set
    delete_set,      \* KVTMemManagerSimple::delete_set
    tables,          \* ids of the tables that exist (tablename_to_id)
    alive,           \* FALSE once an assert() of the engine has aborted the process
    ret,             \* the last call and its outcome: [op, tx, err]
    log              \* per client transaction: the calls it made and what they returned

vars == <<strategy, table_data, transactions, next_tx_id, current_tx_id,
          write_set, delete_set, tables, alive, ret, log>>

----------------------------------------------------------------------------
(* Bounds and input domains *)

\* transaction ids handed out by start_transaction are 1..MaxTx
MaxTx == 2
\* one-shot OCC writes stop raising a version at MaxVersion
MaxVersion == 2

\* user keys are strings, modelled as sequences of characters
Keys == {<<"a">>, <<"b">>}
Vals == {"x", "y"}
\* the table of the engine-level specifications
T1 == 1
EngineKeys == {<<T1, k>> : k \in Keys}
ScanLimits == {1, 2}
MaxOpen == 2
SoloTx == 1
MaxOps == 2
MaxCalls == 3
HotKeys == {<<"a">>}

----------------------------------------------------------------------------
(* Finite maps (std::map / std::unordered_map) *)

EmptyMap == [x \in {} |-> 0]
Has(f, k) == k \in DOMAIN f
Put(f, k, v) == [x \in (DOMAIN f) \cup {k} |-> IF x = k THEN v ELSE f[x]]
Erase(f, k) == [x \in (DOMAIN f) \ {k} |-> f[x]]

\* struct Entry { data, metadata }
Entry(d, m) == [data |-> d, metadata |-> m]
\* struct Transaction { read_set, write_set, delete_set }
NewTransaction == [read_set |-> EmptyMap, write_set |-> EmptyMap, delete_set |-> {}]

\* the result of one engine call
Result(e, err, value) == [eng |-> e, err |-> err, value |-> value]

\* "auto r = call; rest(r)": the call is evaluated once and its result handed on
Then(r, rest(_)) == CHOOSE out \in {rest(v) : v \in {r}} : TRUE

----------------------------------------------------------------------------
(* Key order: std::string operator< on the bytes of the key *)

CharCode(c) ==
    CASE c = "0" -> 48 [] c = "1" -> 49 [] c = "2" -> 50 [] c = "3" -> 51
      [] c = "4" -> 52 [] c = "5" -> 53 [] c = "6" -> 54 [] c = "7" -> 55
      [] c = "8" -> 56 [] c = "9" -> 57
      [] c = ":" -> 58 [] c = "\\" -> 92
      [] c = "a" -> 97 [] c = "b" -> 98 [] c = "c" -> 99
      [] c = "e" -> 101 [] c = "r" -> 114 [] c = "v" -> 118
      [] c = "HIGH" -> 255

RECURSIVE StrLess(_, _)
StrLess(s, t) ==
    IF t = <<>> THEN FALSE
    ELSE IF s = <<>> THEN TRUE
    ELSE IF CharCode(Head(s)) # CharCode(Head(t))
         THEN CharCode(Head(s)) < CharCode(Head(t))
         ELSE StrLess(Tail(s), Tail(t))

\* keys of one table in ascending order (iteration order of std::map)
RECURSIVE SortKeys(_)
SortKeys(S) ==
    IF S = {} THEN <<>>
    ELSE LET m == CHOOSE x \in S : \A y \in S \ {x} : StrLess(x, y)
         IN <<m>> \o SortKeys(S \ {m})

\* user keys k of table tid in map f with key_start <= k < key_end
InRange(f, tid, key_start, key_end) ==
    {ck[2] : ck \in {c \in DOMAIN f : c[1] = tid
                        /\ ~StrLess(c[2], key_start) /\ StrLess(c[2], key_end)}}

Prefix(s, n) == IF n >= Len(s) THEN s ELSE SubSeq(s, 1, n)

----------------------------------------------------------------------------
(* KVTMemManagerBase *)

TableExists(e, tid) == tid \in e.tables

Base_start_transaction(e) ==
    Result([e EXCEPT !.txs = Put(e.txs, e.next_tx_id, NewTransaction),
                     !.next_tx_id = e.next_tx_id + 1],
           "SUCCESS", e.next_tx_id)

\* an end of transaction that keeps it in the map
DropTx_Keeps(e, tx) == e

DropTx(e, tx) == [e EXCEPT !.txs = Erase(e.txs, tx)]

----------------------------------------------------------------------------
(* KVTMemManagerOCC: Entry.metadata is the version *)

\* the stale test of commit_transaction on one key of the read_set
OCC_StaleKey(e, tx, k) ==
    \/ ~Has(e.data, k)
    \/ e.data[k].metadata > e.txs[tx].read_set[k].metadata

\* the read-set validation of commit_transaction
OCC_Stale(e, tx) == \E k \in DOMAIN e.txs[tx].read_set : OCC_StaleKey(e, tx, k)

\* the version commit_transaction gives a key it installs
OCC_NewVersion(data, k) == IF Has(data, k) THEN data[k].metadata + 1 ELSE 1

\* install phase of commit_transaction: deletes first, then writes
OCC_Install(e, tx) ==
    LET t == e.txs[tx]
        afterDel == [k \in (DOMAIN e.data) \ t.delete_set |-> e.data[k]]
    IN [k \in (DOMAIN afterDel) \cup (DOMAIN t.write_set) |->
          IF Has(t.write_set, k)
          THEN Entry(t.write_set[k].data, OCC_NewVersion(afterDel, k))
          ELSE afterDel[k]]

\* assert(table) of commit_transaction fails: a key of the transaction's sets
\* names a table that has been dropped
OCC_TableGone(e, tx) ==
    \E k \in (DOMAIN e.txs[tx].read_set) \cup (DOMAIN e.txs[tx].write_set)
              \cup e.txs[tx].delete_set : ~TableExists(e, k[1])

\* order of make_table_key strings: the table id (little-endian, below 256),
\* then the key
TableKeyLess(a, b) == a[1] < b[1] \/ (a[1] = b[1] /\ StrLess(a[2], b[2]))

\* the validation loop of commit_transaction walks the read_set in key order
\* and stops at the first key whose table is gone (assert(table)) or whose
\* entry is missing or newer than the version read
OCC_Validate(e, tx) ==
    LET rs == e.txs[tx].read_set
        bad == {k \in DOMAIN rs : ~TableExists(e, k[1]) \/ OCC_StaleKey(e, tx, k)}
    IN IF bad = {} THEN "valid"
       ELSE LET first == CHOOSE k \in bad : \A j \in bad : j = k \/ TableKeyLess(k, j)
            IN IF ~TableExists(e, first[1]) THEN "assert" ELSE "stale"

OCC_commit_transaction(e, tx) ==
    IF ~Has(e.txs, tx) THEN Result(e, "TRANSACTION_NOT_FOUND", "")
    ELSE IF OCC_Validate(e, tx) = "assert"
    THEN Result([e EXCEPT !.alive = FALSE], "ASSERT_FAILED", "")
    ELSE IF OCC_Validate(e, tx) = "stale"
    THEN Result(DropTx(e, tx), "TRANSACTION_HAS_STALE_DATA", "")
    ELSE IF OCC_TableGone(e, tx)
    THEN \* assert(table) of the delete or of the write loop fails
         Result([e EXCEPT !.alive = FALSE], "ASSERT_FAILED", "")
    ELSE IF \E k \in e.txs[tx].delete_set : ~Has(e.data, k)
    THEN \* assert (itr != table->data.end()) fails
         Result([e EXCEPT !.alive = FALSE], "ASSERT_FAILED", "")
    ELSE Result(DropTx([e EXCEPT !.data = OCC_Install(e, tx)], tx), "SUCCESS", "")

OCC_rollback_transaction(e, tx) ==
    IF ~Has(e.txs, tx) THEN Result(e, "TRANSACTION_NOT_FOUND", "")
    ELSE Result(DropTx(e, tx), "SUCCESS", "")

\* a get that goes to the table whenever the key is not staged
OCC_get_FromTable(e, tx, tid, key) ==
    LET ck == <<tid, key>> IN
    IF tx = 0 THEN
        IF ~TableExists(e, tid) THEN Result(e, "TABLE_NOT_FOUND", "")
        ELSE IF ~Has(e.data, ck) THEN Result(e, "KEY_NOT_FOUND", "")
        ELSE Result(e, "SUCCESS", e.data[ck].data)
    ELSE IF ~Has(e.txs, tx) THEN Result(e, "TRANSACTION_NOT_FOUND", "")
    ELSE LET t == e.txs[tx] IN
         IF Has(t.write_set, ck) THEN Result(e, "SUCCESS", t.write_set[ck].data)
         ELSE IF ck \in t.delete_set THEN Result(e, "KEY_IS_DELETED", "")
         ELSE IF ~TableExists(e, tid) THEN Result(e, "TABLE_NOT_FOUND", "")
         ELSE IF ~Has(e.data, ck) THEN Result(e, "KEY_NOT_FOUND", "")
         ELSE Result([e EXCEPT !.txs[tx].read_set =
                          IF Has(t.read_set, ck) THEN t.read_set
                          ELSE Put(t.read_set, ck, e.data[ck])],
                     "SUCCESS", e.data[ck].data)

OCC_get(e, tx, tid, key) ==
    LET ck == <<tid, key>> IN
    IF tx = 0 THEN
        IF ~TableExists(e, tid) THEN Result(e, "TABLE_NOT_FOUND", "")
        ELSE IF ~Has(e.data, ck) THEN Result(e, "KEY_NOT_FOUND", "")
        ELSE Result(e, "SUCCESS", e.data[ck].data)
    ELSE IF ~Has(e.txs, tx) THEN Result(e, "TRANSACTION_NOT_FOUND", "")
    ELSE LET t == e.txs[tx] IN
         IF Has(t.write_set, ck) THEN Result(e, "SUCCESS", t.write_set[ck].data)
         ELSE IF ck \in t.delete_set THEN Result(e, "KEY_IS_DELETED", "")
         ELSE IF Has(t.read_set, ck) THEN Result(e, "SUCCESS", t.read_set[ck].data)
         ELSE IF ~TableExists(e, tid) THEN Result(e, "TABLE_NOT_FOUND", "")
         ELSE IF ~Has(e.data, ck) THEN Result(e, "KEY_NOT_FOUND", "")
         ELSE Result([e EXCEPT !.txs[tx].read_set = Put(t.read_set, ck, e.data[ck])],
                     "SUCCESS", e.data[ck].data)

\* a set that leaves the delete_set as it is
OCC_set_KeepsDelete(e, tx, tid, key, value) ==
    IF tx = 0 \/ ~Has(e.txs, tx) THEN Result(e, "TRANSACTION_NOT_FOUND", "")
    ELSE Result([e EXCEPT !.txs[tx].write_set =
                              Put(e.txs[tx].write_set, <<tid, key>>, Entry(value, 0))],
                "SUCCESS", "")

OCC_set(e, tx, tid, key, value) ==
    LET ck == <<tid, key>> IN
    IF tx = 0 THEN
        IF ~TableExists(e, tid) THEN Result(e, "TABLE_NOT_FOUND", "")
        ELSE IF ~Has(e.data, ck)
        THEN Result([e EXCEPT !.data = Put(e.data, ck, Entry(value, 1))], "SUCCESS", "")
        ELSE Result([e EXCEPT !.data = Put(e.data, ck,
                                  Entry(value, e.data[ck].metadata + 1))], "SUCCESS", "")
    ELSE IF ~Has(e.txs, tx) THEN Result(e, "TRANSACTION_NOT_FOUND", "")
    ELSE LET t == e.txs[tx] IN
         Result([e EXCEPT !.txs[tx].write_set = Put(t.write_set, ck, Entry(value, 0)),
                          !.txs[tx].delete_set = t.delete_set \ {ck}],
                "SUCCESS", "")

OCC_del(e, tx, tid, key) ==
    LET ck == <<tid, key>> IN
    IF tx = 0 THEN
        IF ~TableExists(e, tid) THEN Result(e, "TABLE_NOT_FOUND", "")
        ELSE IF ~Has(e.data, ck) THEN Result(e, "KEY_NOT_FOUND", "")
        ELSE Result([e EXCEPT !.data = Erase(e.data, ck)], "SUCCESS", "")
    ELSE IF ~Has(e.txs, tx) THEN Result(e, "TRANSACTION_NOT_FOUND", "")
    ELSE LET t == e.txs[tx] IN
         IF Has(t.write_set, ck)
         THEN \* delete after write: the key is not read from the table
              Result([e EXCEPT !.txs[tx].write_set = Erase(t.write_set, ck),
                               !.txs[tx].delete_set = t.delete_set \cup {ck}],
                     "SUCCESS", "")
         ELSE IF Has(t.read_set, ck)
         THEN Result([e EXCEPT !.txs[tx].delete_set = t.delete_set \cup {ck}],
                     "SUCCESS", "")
         ELSE IF ~TableExists(e, tid) THEN Result(e, "TABLE_NOT_FOUND", "")
         ELSE IF ~Has(e.data, ck) THEN Result(e, "KEY_NOT_FOUND", "")
         ELSE Result([e EXCEPT !.txs[tx].read_set = Put(t.read_set, ck, e.data[ck]),
                               !.txs[tx].delete_set = t.delete_set \cup {ck}],
                     "SUCCESS", "")

\* the first n elements of a sequence
Take(s, n) == IF n >= Len(s) THEN s ELSE SubSeq(s, 1, n)

\* "for (...) { add; if (size >= limit) break; }": at least one element is added
TakeBreak(s, limit) == IF limit < 1 THEN Take(s, 1) ELSE Take(s, limit)

\* the table loop of KVTMemManagerOCC::scan over the keys ks (ascending):
\* acc = [rs: read_set, res: key -> data, ok: no assert failed]
RECURSIVE OCC_ScanTable(_, _, _, _, _, _, _)
OCC_ScanTable(ks, data, tid, t, rw, limit, acc) ==
    IF ks = <<>> \/ ~acc.ok THEN acc
    ELSE LET k == Head(ks)
             ck == <<tid, k>>
         IN IF k \in rw \/ ck \in t.delete_set
            THEN OCC_ScanTable(Tail(ks), data, tid, t, rw, limit, acc)
            ELSE LET next ==
                       IF ~Has(acc.rs, ck)
                       THEN [acc EXCEPT !.rs = Put(acc.rs, ck, data[ck]),
                                        !.res = Put(acc.res, k, data[ck].data)]
                       ELSE IF acc.rs[ck].data # data[ck].data
                               /\ ~(acc.rs[ck].metadata < data[ck].metadata)
                       THEN [acc EXCEPT !.ok = FALSE]
                       ELSE [acc EXCEPT !.res = Put(acc.res, k, acc.rs[ck].data)]
                 IN IF Cardinality(DOMAIN next.res) >= limit
                    THEN next
                    ELSE OCC_ScanTable(Tail(ks), data, tid, t, rw, limit, next)

OCC_scan(e, tx, tid, key_start, key_end, limit) ==
    IF ~TableExists(e, tid) THEN Result(e, "TABLE_NOT_FOUND", <<>>)
    ELSE IF tx = 0 THEN
        LET ks == TakeBreak(SortKeys(InRange(e.data, tid, key_start, key_end)), limit)
        IN Result(e, "SUCCESS", [i \in 1..Len(ks) |-> <<ks[i], e.data[<<tid, ks[i]>>].data>>])
    ELSE IF ~Has(e.txs, tx) THEN Result(e, "TRANSACTION_NOT_FOUND", <<>>)
    ELSE LET t == e.txs[tx]
             wks == TakeBreak(SortKeys(InRange(t.write_set, tid, key_start, key_end)), limit)
             rw == {wks[i] : i \in 1..Len(wks)}
             acc == OCC_ScanTable(SortKeys(InRange(e.data, tid, key_start, key_end)),
                                  e.data, tid, t, rw, limit,
                                  [rs |-> t.read_set, res |-> EmptyMap, ok |-> TRUE])
             merged == SortKeys(rw \cup DOMAIN acc.res)
             out == TakeBreak(merged, limit)
         IN IF ~acc.ok
            THEN \* assert (read_set version < table version) fails
                 Result([e EXCEPT !.alive = FALSE], "ASSERT_FAILED", <<>>)
            ELSE Result([e EXCEPT !.txs[tx].read_set = acc.rs], "SUCCESS",
                        [i \in 1..Len(out) |->
                            <<out[i], IF out[i] \in rw THEN t.write_set[<<tid, out[i]>>].data
                                      ELSE acc.res[out[i]]>>])

----------------------------------------------------------------------------
(* KVTMemManagerNoCC: table_data is written in place, under any tx id below *)
(* next_tx_id; commit and rollback do nothing                              *)

NoCC_start_transaction(e) ==
    Result([e EXCEPT !.next_tx_id = e.next_tx_id + 1], "SUCCESS", e.next_tx_id)

NoCC_commit_transaction(e, tx) == Result(e, "SUCCESS", "")

NoCC_rollback_transaction(e, tx) == Result(e, "SUCCESS", "")

NoCC_get(e, tx, tid, key) ==
    LET ck == <<tid, key>> IN
    IF tx >= e.next_tx_id THEN Result(e, "TRANSACTION_NOT_FOUND", "")
    ELSE IF ~TableExists(e, tid) THEN Result(e, "TABLE_NOT_FOUND", "")
    ELSE IF ~Has(e.data, ck) THEN Result(e, "KEY_NOT_FOUND", "")
    ELSE Result(e, "SUCCESS", e.data[ck].data)

NoCC_set(e, tx, tid, key, value) ==
    LET ck == <<tid, key>> IN
    IF tx >= e.next_tx_id THEN Result(e, "TRANSACTION_NOT_FOUND", "")
    ELSE IF ~TableExists(e, tid) THEN Result(e, "TABLE_NOT_FOUND", "")
    ELSE Result([e EXCEPT !.data = Put(e.data, ck, Entry(value, 0))], "SUCCESS", "")

NoCC_del(e, tx, tid, key) ==
    LET ck == <<tid, key>> IN
    IF tx >= e.next_tx_id THEN Result(e, "TRANSACTION_NOT_FOUND", "")
    ELSE IF ~TableExists(e, tid) THEN Result(e, "TABLE_NOT_FOUND", "")
    ELSE IF ~Has(e.data, ck) THEN Result(e, "KEY_NOT_FOUND", "")
    ELSE Result([e EXCEPT !.data = Erase(e.data, ck)], "SUCCESS", "")

\* user keys k of table tid in map f with key_start <= k <= key_end:
\* [lower_bound(start), upper_bound(end)) includes a key equal to key_end
InRangeClosed(f, tid, key_start, key_end) ==
    {ck[2] : ck \in {c \in DOMAIN f : c[1] = tid
                        /\ ~StrLess(c[2], key_start) /\ ~StrLess(key_end, c[2])}}

NoCC_scan(e, tx, tid, key_start, key_end, limit) ==
    IF tx >= e.next_tx_id THEN Result(e, "TRANSACTION_NOT_FOUND", <<>>)
    ELSE IF ~TableExists(e, tid) THEN Result(e, "TABLE_NOT_FOUND", <<>>)
    ELSE LET ks == Take(SortKeys(InRangeClosed(e.data, tid, key_start, key_end)), limit)
         IN Result(e, "SUCCESS", [i \in 1..Len(ks) |-> <<ks[i], e.data[<<tid, ks[i]>>].data>>])

----------------------------------------------------------------------------
(* KVTMemManagerSimple: one transaction at a time, one write_set and one    *)
(* delete_set for the whole manager                                        *)

\* a begin that never refuses
Simple_start_Always(e) ==
    Result([e EXCEPT !.current_tx_id = e.next_tx_id,
                     !.next_tx_id = e.next_tx_id + 1],
           "SUCCESS", e.next_tx_id)

Simple_start_transaction(e) ==
    IF e.current_tx_id # 0 THEN Result(e, "TRANSACTION_ALREADY_RUNNING", 0)
    ELSE Result([e EXCEPT !.current_tx_id = e.next_tx_id,
                          !.next_tx_id = e.next_tx_id + 1],
                "SUCCESS", e.next_tx_id)

\* table_data.insert(write_set.begin(), write_set.end()): std::map::insert
\* leaves a key that is already present as it is
Simple_InsertWrites(data, ws) ==
    [k \in (DOMAIN data) \cup (DOMAIN ws) |->
        IF Has(data, k) THEN data[k] ELSE Entry(ws[k], 0)]

Simple_commit_transaction(e, tx) ==
    IF e.current_tx_id # tx THEN Result(e, "TRANSACTION_NOT_FOUND", "")
    ELSE LET ins == Simple_InsertWrites(e.data, e.write_set) IN
         IF \E k \in e.delete_set : Has(e.write_set, k) \/ ~Has(ins, k)
         THEN Result([e EXCEPT !.alive = FALSE], "ASSERT_FAILED", "")
         ELSE Result([e EXCEPT !.data = [k \in (DOMAIN ins) \ e.delete_set |-> ins[k]],
                               !.write_set = EmptyMap,
                               !.delete_set = {},
                               !.current_tx_id = 0],
                     "SUCCESS", "")

Simple_rollback_transaction(e, tx) ==
    IF e.current_tx_id # tx THEN Result(e, "TRANSACTION_NOT_FOUND", "")
    ELSE Result([e EXCEPT !.write_set = EmptyMap, !.delete_set = {},
                          !.current_tx_id = 0],
                "SUCCESS", "")

Simple_get(e, tx, tid, key) ==
    LET ck == <<tid, key>> IN
    IF ~TableExists(e, tid) THEN Result(e, "TABLE_NOT_FOUND", "")
    ELSE IF tx # 0 /\ e.current_tx_id # tx THEN Result(e, "TRANSACTION_NOT_FOUND", "")
    ELSE IF Has(e.write_set, ck) THEN Result(e, "SUCCESS", e.write_set[ck])
    ELSE IF ck \in e.delete_set THEN Result(e, "KEY_IS_DELETED", "")
    ELSE IF ~Has(e.data, ck) THEN Result(e, "KEY_NOT_FOUND", "")
    ELSE Result(e, "SUCCESS", e.data[ck].data)

Simple_set(e, tx, tid, key, value) ==
    LET ck == <<tid, key>> IN
    IF ~TableExists(e, tid) THEN Result(e, "TABLE_NOT_FOUND", "")
    ELSE IF e.current_tx_id # tx THEN Result(e, "TRANSACTION_NOT_FOUND", "")
    ELSE Result([e EXCEPT !.delete_set = e.delete_set \ {ck},
                          !.write_set = Put(e.write_set, ck, value)],
                "SUCCESS", "")

Simple_del(e, tx, tid, key) ==
    LET ck == <<tid, key>> IN
    IF ~TableExists(e, tid) THEN Result(e, "TABLE_NOT_FOUND", "")
    ELSE IF e.current_tx_id # tx THEN Result(e, "TRANSACTION_NOT_FOUND", "")
    ELSE IF Has(e.write_set, ck)
    THEN Result([e EXCEPT !.write_set = Erase(e.write_set, ck)], "SUCCESS", "")
    ELSE IF ~Has(e.data, ck) THEN Result(e, "KEY_NOT_FOUND", "")
    ELSE Result([e EXCEPT !.delete_set = e.delete_set \cup {ck}], "SUCCESS", "")

\* result_map: the table range, minus delete_set, then insert() of the
\* write_set range (a key already in result_map keeps the table's value);
\* num_item_limit is not read
Simple_scan(e, tx, tid, key_start, key_end, limit) ==
    IF ~TableExists(e, tid) THEN Result(e, "TABLE_NOT_FOUND", <<>>)
    ELSE IF tx # 0 /\ e.current_tx_id # tx THEN Result(e, "TRANSACTION_NOT_FOUND", <<>>)
    ELSE LET fromTable == {k \in InRangeClosed(e.data, tid, key_start, key_end) :
                              <<tid, k>> \notin e.delete_set}
             fromWrites == InRangeClosed(e.write_set, tid, key_start, key_end)
             ks == SortKeys(fromTable \cup fromWrites)
         IN Result(e, "SUCCESS",
                   [i \in 1..Len(ks) |->
                      <<ks[i], IF ks[i] \in fromTable THEN e.data[<<tid, ks[i]>>].data
                               ELSE e.write_set[<<tid, ks[i]>>]>>])

----------------------------------------------------------------------------
(* KVTMemManager2PL: Entry.metadata of a table entry is the id of the      *)
(* transaction holding its lock (0 = unlocked); metadata of a write_set    *)
(* entry is 1 for a key the transaction created (a placeholder is in the   *)
(* table) and 0 otherwise                                                  *)

\* a lock check that finds no key locked
TPL_NeverLocked(entry, tx) == FALSE

\* "locked by another transaction"
TPL_LockedByOther(entry, tx) == entry.metadata # 0 /\ entry.metadata # tx

\* a table entry with its lock field set to m
WithLock(entry, m) == Entry(entry.data, m)

\* commit_transaction: the three loops (deletes, writes, read locks)
TPL_AfterDeletes(e, tx) ==
    [k \in (DOMAIN e.data) \ e.txs[tx].delete_set |-> e.data[k]]

TPL_AfterWrites(e, tx, d) ==
    LET ws == e.txs[tx].write_set IN
    [k \in (DOMAIN d) \cup (DOMAIN ws) |->
        IF Has(ws, k) THEN Entry(ws[k].data, 0) ELSE d[k]]

TPL_AfterReadRelease(e, tx, d) ==
    LET t == e.txs[tx] IN
    [k \in DOMAIN d |->
        IF Has(t.read_set, k) /\ ~Has(t.write_set, k) /\ k \notin t.delete_set
        THEN WithLock(d[k], 0) ELSE d[k]]

\* the three assert(it->second.metadata == tx_id) of commit_transaction
TPL_CommitAsserts(e, tx) ==
    LET t == e.txs[tx]
        d1 == TPL_AfterDeletes(e, tx)
        d2 == TPL_AfterWrites(e, tx, d1)
    IN /\ \A k \in t.delete_set : Has(e.data, k) => e.data[k].metadata = tx
       /\ \A k \in DOMAIN t.write_set : Has(d1, k) => d1[k].metadata = tx
       /\ \A k \in DOMAIN t.read_set :
            (~Has(t.write_set, k) /\ k \notin t.delete_set /\ Has(d2, k))
                => d2[k].metadata = tx

TPL_commit_transaction(e, tx) ==
    IF ~Has(e.txs, tx) THEN Result(e, "TRANSACTION_NOT_FOUND", "")
    ELSE IF ~TPL_CommitAsserts(e, tx)
    THEN Result([e EXCEPT !.alive = FALSE], "ASSERT_FAILED", "")
    ELSE LET d == TPL_AfterReadRelease(e, tx,
                      TPL_AfterWrites(e, tx, TPL_AfterDeletes(e, tx)))
         IN Result(DropTx([e EXCEPT !.data = d], tx), "SUCCESS", "")

\* a rollback that leaves locks and placeholders where they are
TPL_RollbackData_KeepsLocks(e, tx) == e.data

\* rollback_transaction: the write loop (placeholders of new keys erased,
\* other locks released), then the read and delete loops (locks released)
TPL_RollbackData(e, tx) ==
    LET t == e.txs[tx]
        mine(k) == Has(e.data, k) /\ e.data[k].metadata = tx
        dropped == {k \in DOMAIN t.write_set : mine(k) /\ t.write_set[k].metadata = 1}
        listed == (DOMAIN t.write_set) \cup (DOMAIN t.read_set) \cup t.delete_set
    IN [k \in (DOMAIN e.data) \ dropped |->
          IF k \in listed /\ mine(k) THEN WithLock(e.data[k], 0) ELSE e.data[k]]

TPL_rollback_transaction(e, tx) ==
    IF ~Has(e.txs, tx) THEN Result(e, "TRANSACTION_NOT_FOUND", "")
    ELSE Result(DropTx([e EXCEPT !.data = TPL_RollbackData(e, tx)], tx), "SUCCESS", "")

TPL_get(e, tx, tid, key) ==
    LET ck == <<tid, key>> IN
    IF tx = 0 THEN
        IF ~TableExists(e, tid) THEN Result(e, "TABLE_NOT_FOUND", "")
        ELSE IF ~Has(e.data, ck) THEN Result(e, "KEY_NOT_FOUND", "")
        ELSE IF e.data[ck].metadata # 0 THEN Result(e, "KEY_IS_LOCKED", "")
        ELSE Result(e, "SUCCESS", e.data[ck].data)
    ELSE IF ~Has(e.txs, tx) THEN Result(e, "TRANSACTION_NOT_FOUND", "")
    ELSE LET t == e.txs[tx] IN
         IF ck \in t.delete_set THEN Result(e, "KEY_IS_DELETED", "")
         ELSE IF Has(t.write_set, ck) THEN Result(e, "SUCCESS", t.write_set[ck].data)
         ELSE IF Has(t.read_set, ck) THEN Result(e, "SUCCESS", t.read_set[ck].data)
         ELSE IF ~TableExists(e, tid) THEN Result(e, "TABLE_NOT_FOUND", "")
         ELSE IF ~Has(e.data, ck) THEN Result(e, "KEY_NOT_FOUND", "")
         ELSE IF TPL_LockedByOther(e.data[ck], tx) THEN Result(e, "KEY_IS_LOCKED", "")
         ELSE LET locked == WithLock(e.data[ck], tx) IN
              Result([e EXCEPT !.data = Put(e.data, ck, locked),
                               !.txs[tx].read_set = Put(t.read_set, ck, locked)],
                     "SUCCESS", locked.data)

TPL_set(e, tx, tid, key, value) ==
    LET ck == <<tid, key>> IN
    IF tx = 0 THEN
        IF ~TableExists(e, tid) THEN Result(e, "TABLE_NOT_FOUND", "")
        ELSE IF ~Has(e.data, ck)
        THEN Result([e EXCEPT !.data = Put(e.data, ck, Entry(value, 0))], "SUCCESS", "")
        ELSE IF e.data[ck].metadata = 0
        THEN Result([e EXCEPT !.data = Put(e.data, ck, Entry(value, 0))], "SUCCESS", "")
        ELSE Result(e, "KEY_IS_LOCKED", "")
    ELSE IF ~Has(e.txs, tx) THEN Result(e, "TRANSACTION_NOT_FOUND", "")
    ELSE LET t == e.txs[tx]
             \* tx->delete_set.erase(table_key) comes before every other check
             e1 == [e EXCEPT !.txs[tx].delete_set = t.delete_set \ {ck}]
         IN
         IF Has(t.write_set, ck)
         THEN Result([e1 EXCEPT !.txs[tx].write_set =
                          Put(t.write_set, ck, Entry(value, t.write_set[ck].metadata))],
                     "SUCCESS", "")
         ELSE IF ~TableExists(e, tid) THEN Result(e1, "TABLE_NOT_FOUND", "")
         ELSE IF Has(e.data, ck)
         THEN IF TPL_LockedByOther(e.data[ck], tx) THEN Result(e1, "KEY_IS_LOCKED", "")
              ELSE LET locked == WithLock(e.data[ck], tx) IN
                   Result([e1 EXCEPT
                             !.data = Put(e.data, ck, locked),
                             !.txs[tx].read_set =
                                 IF Has(t.read_set, ck) THEN t.read_set
                                 ELSE Put(t.read_set, ck, locked),
                             !.txs[tx].write_set = Put(t.write_set, ck, Entry(value, 0))],
                          "SUCCESS", "")
         ELSE \* new key: a placeholder holding the lock
              Result([e1 EXCEPT
                        !.data = Put(e.data, ck, Entry("", tx)),
                        !.txs[tx].write_set = Put(t.write_set, ck, Entry(value, 1))],
                     "SUCCESS", "")

TPL_del(e, tx, tid, key) ==
    LET ck == <<tid, key>> IN
    IF tx = 0 THEN
        IF ~TableExists(e, tid) THEN Result(e, "TABLE_NOT_FOUND", "")
        ELSE IF ~Has(e.data, ck) THEN Result(e, "KEY_NOT_FOUND", "")
        ELSE IF e.data[ck].metadata = 0
        THEN Result([e EXCEPT !.data = Erase(e.data, ck)], "SUCCESS", "")
        ELSE Result(e, "KEY_IS_LOCKED", "")
    ELSE IF ~Has(e.txs, tx) THEN Result(e, "TRANSACTION_NOT_FOUND", "")
    ELSE LET t == e.txs[tx] IN
         IF Has(t.write_set, ck) /\ t.write_set[ck].metadata = 1
         THEN \* a key this transaction was going to add: drop the placeholder
              LET d == IF TableExists(e, tid) /\ Has(e.data, ck) /\ e.data[ck].metadata = tx
                       THEN Erase(e.data, ck) ELSE e.data
              IN Result([e EXCEPT !.data = d,
                                  !.txs[tx].write_set = Erase(t.write_set, ck)],
                        "SUCCESS", "")
         ELSE LET e1 == [e EXCEPT !.txs[tx].write_set = Erase(t.write_set, ck)] IN
              IF ~TableExists(e, tid) THEN Result(e1, "TABLE_NOT_FOUND", "")
              ELSE IF ~Has(e.data, ck) THEN Result(e1, "KEY_NOT_FOUND", "")
              ELSE IF TPL_LockedByOther(e.data[ck], tx) THEN Result(e1, "KEY_IS_LOCKED", "")
              ELSE LET locked == WithLock(e.data[ck], tx) IN
                   Result([e1 EXCEPT
                             !.data = Put(e.data, ck, locked),
                             !.txs[tx].read_set =
                                 IF Has(t.read_set, ck) THEN t.read_set
                                 ELSE Put(t.read_set, ck, locked),
                             !.txs[tx].delete_set = t.delete_set \cup {ck}],
                          "SUCCESS", "")

TPL_scan(e, tx, tid, key_start, key_end, limit) ==
    IF ~TableExists(e, tid) THEN Result(e, "TABLE_NOT_FOUND", <<>>)
    ELSE IF tx = 0 THEN
        LET ks == Take(SortKeys(InRange(e.data, tid, key_start, key_end)), limit)
        IN Result(e, "SUCCESS", [i \in 1..Len(ks) |-> <<ks[i], e.data[<<tid, ks[i]>>].data>>])
    ELSE IF ~Has(e.txs, tx) THEN Result(e, "TRANSACTION_NOT_FOUND", <<>>)
    ELSE LET t == e.txs[tx]
             fromWrites == InRange(t.write_set, tid, key_start, key_end)
             fromTable == {k \in InRange(e.data, tid, key_start, key_end) :
                              <<tid, k>> \notin t.delete_set /\ k \notin fromWrites}
             ks == TakeBreak(SortKeys(fromWrites \cup fromTable), limit)
         IN Result(e, "SUCCESS",
                   [i \in 1..Len(ks) |->
                      <<ks[i], IF ks[i] \in fromWrites THEN t.write_set[<<tid, ks[i]>>].data
                               ELSE e.data[<<tid, ks[i]>>].data>>])

----------------------------------------------------------------------------
(* The kvt_* entry points: a virtual call on g_kvt_manager *)

kvt_start_transaction(e) ==
    CASE e.strategy = "NoCC" -> NoCC_start_transaction(e)
      [] e.strategy = "Simple" -> Simple_start_transaction(e)
      [] OTHER -> Base_start_transaction(e)

kvt_commit_transaction(e, tx) ==
    CASE e.strategy = "NoCC" -> NoCC_commit_transaction(e, tx)
      [] e.strategy = "Simple" -> Simple_commit_transaction(e, tx)
      [] e.strategy = "2PL" -> TPL_commit_transaction(e, tx)
      [] e.strategy = "OCC" -> OCC_commit_transaction(e, tx)

kvt_rollback_transaction(e, tx) ==
    CASE e.strategy = "NoCC" -> NoCC_rollback_transaction(e, tx)
      [] e.strategy = "Simple" -> Simple_rollback_transaction(e, tx)
      [] e.strategy = "2PL" -> TPL_rollback_transaction(e, tx)
      [] e.strategy = "OCC" -> OCC_rollback_transaction(e, tx)

kvt_get(e, tx, tid, key) ==
    CASE e.strategy = "NoCC" -> NoCC_get(e, tx, tid, key)
      [] e.strategy = "Simple" -> Simple_get(e, tx, tid, key)
      [] e.strategy = "2PL" -> TPL_get(e, tx, tid, key)
      [] e.strategy = "OCC" -> OCC_get(e, tx, tid, key)

kvt_set(e, tx, tid, key, value) ==
    CASE e.strategy = "NoCC" -> NoCC_set(e, tx, tid, key, value)
      [] e.strategy = "Simple" -> Simple_set(e, tx, tid, key, value)
      [] e.strategy = "2PL" -> TPL_set(e, tx, tid, key, value)
      [] e.strategy = "OCC" -> OCC_set(e, tx, tid, key, value)

kvt_del(e, tx, tid, key) ==
    CASE e.strategy = "NoCC" -> NoCC_del(e, tx, tid, key)
      [] e.strategy = "Simple" -> Simple_del(e, tx, tid, key)
      [] e.strategy = "2PL" -> TPL_del(e, tx, tid, key)
      [] e.strategy = "OCC" -> OCC_del(e, tx, tid, key)

kvt_scan(e, tx, tid, key_start, key_end, limit) ==
    CASE e.strategy = "NoCC" -> NoCC_scan(e, tx, tid, key_start, key_end, limit)
      [] e.strategy = "Simple" -> Simple_scan(e, tx, tid, key_start, key_end, limit)
      [] e.strategy = "2PL" -> TPL_scan(e, tx, tid, key_start, key_end, limit)
      [] e.strategy = "OCC" -> OCC_scan(e, tx, tid, key_start, key_end, limit)

\* KVTMemManagerBase::drop_table (2PL, OCC): the table and its
\* rows go
Base_drop_table(e, tid) ==
    IF ~TableExists(e, tid) THEN Result(e, "TABLE_NOT_FOUND", "")
    ELSE Result([e EXCEPT !.tables = e.tables \ {tid},
                          !.data = [k \in {x \in DOMAIN e.data : x[1] # tid} |-> e.data[k]]],
                "SUCCESS", "")

\* struct KVTOp
KVTOp(op, tid, key, value) == [op |-> op, table_id |-> tid, key |-> key, value |-> value]

\* one iteration of the loop of KVTWrapper::batch_execute
BatchStep(e, tx, o) ==
    CASE o.op = "OP_GET" -> kvt_get(e, tx, o.table_id, o.key)
      [] o.op = "OP_SET" -> kvt_set(e, tx, o.table_id, o.key, o.value)
      [] o.op = "OP_DEL" -> kvt_del(e, tx, o.table_id, o.key)
      [] OTHER -> Result(e, "UNKNOWN_ERROR", "")

\* KVTWrapper::batch_execute: every op is issued with the caller's tx_id,
\* tx_id 0 included; value is the vector of KVTOpResult
RECURSIVE BatchLoop(_, _, _, _)
BatchLoop(e, tx, ops, results) ==
    IF ops = <<>> THEN Result(e, "", results)
    ELSE Then(BatchStep(e, tx, Head(ops)),
              LAMBDA r : BatchLoop(r.eng, tx, Tail(ops),
                                   Append(results, [error |-> r.err, value |-> r.value])))

\* a batch that commits the caller's transaction when it is done
batch_execute_committing(e, tx, ops) ==
    Then(BatchLoop(e, tx, ops, <<>>),
         LAMBDA r : Result(kvt_commit_transaction(r.eng, tx).eng, "SUCCESS", r.value))

kvt_batch_execute(e, tx, ops) ==
    Then(BatchLoop(e, tx, ops, <<>>),
         LAMBDA r :
            LET all_success == \A i \in 1..Len(r.value) : r.value[i].error = "SUCCESS"
            IN Result(r.eng, IF all_success THEN "SUCCESS" ELSE "BATCH_NOT_FULLY_SUCCESS",
                      r.value))

----------------------------------------------------------------------------
(* State *)

Strategies == {"NoCC", "Simple", "2PL", "OCC"}

\* the engine as one record
Eng == [strategy |-> strategy, data |-> table_data, txs |-> transactions,
        next_tx_id |-> next_tx_id, current_tx_id |-> current_tx_id,
        write_set |-> write_set, delete_set |-> delete_set,
        tables |-> tables, alive |-> alive]

NoRet == [op |-> "none", tx |-> 0, err |-> ""]
NoLog == [t \in 1..MaxTx |-> [ops |-> <<>>, end |-> "", seq |-> 0, base |-> 0]]

\* the constructors (next_table_id = 1, next_tx_id = 1, current_tx_id = 0),
\* followed by create_table of the tables in use
InitEngine(s, tids) ==
    /\ strategy = s
    /\ table_data = EmptyMap
    /\ transactions = EmptyMap
    /\ next_tx_id = 1
    /\ current_tx_id = 0
    /\ write_set = EmptyMap
    /\ delete_set = {}
    /\ tables = tids
    /\ alive = TRUE
    /\ ret = NoRet
    /\ log = NoLog

SetEngine(e) ==
    /\ strategy' = e.strategy
    /\ table_data' = e.data
    /\ transactions' = e.txs
    /\ next_tx_id' = e.next_tx_id
    /\ current_tx_id' = e.current_tx_id
    /\ write_set' = e.write_set
    /\ delete_set' = e.delete_set
    /\ tables' = e.tables
    /\ alive' = e.alive

\* a call: the engine after it, and what was called with which outcome
Call(op, tx, r) ==
    /\ SetEngine(r.eng)
    /\ ret' = [op |-> op, tx |-> tx, err |-> r.err]

\* the transactions an operation can name and find open
OpenTx ==
    CASE strategy = "NoCC" -> 1..(next_tx_id - 1)
      [] strategy = "Simple" -> {current_tx_id} \ {0}
      [] OTHER -> DOMAIN transactions

----------------------------------------------------------------------------
(* Actions of the engine: one public operation each *)

\* maxOpen bounds the transactions open at once, maxIds the ids handed out
StartTransaction(maxOpen, maxIds) ==
    /\ alive
    /\ next_tx_id <= maxIds
    /\ Cardinality(OpenTx) < maxOpen
    /\ LET r == kvt_start_transaction(Eng)
       IN /\ SetEngine(r.eng)
          /\ ret' = [op |-> "begin", tx |-> IF r.err = "SUCCESS" THEN r.value ELSE 0,
                     err |-> r.err]
    /\ UNCHANGED log

\* an OCC commit raises the version of each key it writes: bounded by MaxVersion
CommitRoom(tx) ==
    (strategy = "OCC" /\ Has(transactions, tx)) =>
        \A k \in DOMAIN transactions[tx].write_set :
            Has(table_data, k) => table_data[k].metadata < MaxVersion

CommitTransaction(tx) ==
    /\ alive
    /\ CommitRoom(tx)
    /\ Call("commit", tx, kvt_commit_transaction(Eng, tx))
    /\ UNCHANGED log

RollbackTransaction(tx) ==
    /\ alive
    /\ Call("rollback", tx, kvt_rollback_transaction(Eng, tx))
    /\ UNCHANGED log

Get(tx, key) ==
    /\ alive
    /\ Call("get", tx, kvt_get(Eng, tx, T1, key))
    /\ UNCHANGED log

\* a one-shot OCC write raises the version of its key: bounded by MaxVersion
VersionRoom(tx, key) ==
    (strategy = "OCC" /\ tx = 0 /\ Has(table_data, <<T1, key>>))
        => table_data[<<T1, key>>].metadata < MaxVersion

Set(tx, key, value) ==
    /\ alive
    /\ VersionRoom(tx, key)
    /\ Call("set", tx, kvt_set(Eng, tx, T1, key, value))
    /\ UNCHANGED log

Del(tx, key) ==
    /\ alive
    /\ Call("del", tx, kvt_del(Eng, tx, T1, key))
    /\ UNCHANGED log

Scan(tx, key_start, key_end, limit) ==
    /\ alive
    /\ Call("scan", tx, kvt_scan(Eng, tx, T1, key_start, key_end, limit))
    /\ UNCHANGED log

\* sequences of KVTOp handed to kvt_batch_execute
BatchInputs ==
    {<<KVTOp("OP_SET", T1, <<"a">>, v), KVTOp(o, T1, <<"b">>, v)>> :
        v \in Vals, o \in {"OP_SET", "OP_DEL", "OP_GET"}}

BatchExecute(tx, ops) ==
    /\ alive
    /\ \A i \in 1..Len(ops) : ops[i].op = "OP_SET" => VersionRoom(tx, ops[i].key)
    /\ Call("batch", tx, kvt_batch_execute(Eng, tx, ops))
    /\ UNCHANGED log

\* one client transaction next to one-shot calls, over all of Keys; a call may
\* name any id, open, ended or never handed out
Next ==
    \/ StartTransaction(1, SoloTx)
    \/ \E tx \in 1..SoloTx : CommitTransaction(tx)
    \/ \E tx \in 1..SoloTx : RollbackTransaction(tx)
    \/ \E tx \in 0..SoloTx, k \in Keys : Get(tx, k)
    \/ \E tx \in 0..SoloTx, k \in Keys, v \in Vals : Set(tx, k, v)
    \/ \E tx \in 0..SoloTx, k \in Keys : Del(tx, k)
    \/ \E tx \in 0..SoloTx, l \in ScanLimits : Scan(tx, <<"a">>, <<"b">>, l)
    \/ \E tx \in 0..SoloTx, ops \in BatchInputs : BatchExecute(tx, ops)

\* MaxOpen transactions open at once, contending for the keys of HotKeys
ConcNext ==
    \/ StartTransaction(MaxOpen, MaxTx)
    \/ \E tx \in 1..MaxTx : CommitTransaction(tx)
    \/ \E tx \in 1..MaxTx : RollbackTransaction(tx)
    \/ \E tx \in 0..MaxTx, k \in HotKeys : Get(tx, k)
    \/ \E tx \in 0..MaxTx, k \in HotKeys, v \in Vals : Set(tx, k, v)
    \/ \E tx \in 0..MaxTx, k \in HotKeys : Del(tx, k)
    \/ \E tx \in 0..MaxTx, l \in ScanLimits : Scan(tx, <<"a">>, <<"b">>, l)

InitOCC == InitEngine("OCC", {T1})
Init2PL == InitEngine("2PL", {T1})
InitAll == \E s \in Strategies : InitEngine(s, {T1})

Spec == InitAll /\ [][Next]_vars
SpecConc == InitAll /\ [][ConcNext]_vars
SpecOCC == InitOCC /\ [][ConcNext]_vars
Spec2PL == Init2PL /\ [][ConcNext]_vars

\* the Simple manager alone, with all keys
InitSimple == InitEngine("Simple", {T1})

SimpleNext ==
    \/ StartTransaction(MaxOpen, MaxTx)
    \/ \E tx \in 0..MaxTx : CommitTransaction(tx)
    \/ \E tx \in 0..MaxTx : RollbackTransaction(tx)
    \/ \E tx \in 0..MaxTx, k \in Keys : Get(tx, k)
    \/ \E tx \in 0..MaxTx, k \in Keys, v \in Vals : Set(tx, k, v)
    \/ \E tx \in 0..MaxTx, k \in Keys : Del(tx, k)
    \/ \E tx \in 0..MaxTx, l \in ScanLimits : Scan(tx, <<"a">>, <<"b">>, l)

SpecSimple == InitSimple /\ [][SimpleNext]_vars

----------------------------------------------------------------------------
(* Client transactions alone, each keeping the calls it made and their     *)
(* results, so that an execution can be compared with serial ones.         *)

\* table 1 before the first transaction: key b written once, key a never
TxData == (<<T1, <<"b">>>> :> Entry("x", 1))

InitTx ==
    /\ strategy = "OCC"
    /\ table_data = TxData
    /\ transactions = EmptyMap
    /\ next_tx_id = 1
    /\ current_tx_id = 0
    /\ write_set = EmptyMap
    /\ delete_set = {}
    /\ tables = {T1}
    /\ alive = TRUE
    /\ ret = NoRet
    /\ log = NoLog

Logged(tx, op, key, value, r) ==
    [log EXCEPT ![tx].ops = Append(@, [op |-> op, key |-> key, value |-> value,
                                       err |-> r.err, out |-> r.value])]

\* base: the number of successful commits before the transaction began
Begun(tx) ==
    [log EXCEPT ![tx].base = Cardinality({t \in 1..MaxTx : log[t].seq > 0})]

\* seq: the place of a successful commit among the successful commits so far
Ended(tx, r) ==
    [log EXCEPT ![tx].end = r.err,
                ![tx].seq = IF r.err = "SUCCESS"
                            THEN 1 + Cardinality({t \in 1..MaxTx : log[t].seq > 0})
                            ELSE 0]

\* an open transaction with calls left
CanCall(tx) == alive /\ Has(transactions, tx) /\ Len(log[tx].ops) < MaxOps

TxStart ==
    /\ alive
    /\ next_tx_id <= MaxTx
    /\ LET r == kvt_start_transaction(Eng)
       IN /\ SetEngine(r.eng)
          /\ ret' = [op |-> "begin", tx |-> r.value, err |-> r.err]
          /\ log' = IF r.err = "SUCCESS" THEN Begun(r.value) ELSE log

TxGet(tx, key) ==
    /\ CanCall(tx)
    /\ LET r == kvt_get(Eng, tx, T1, key)
       IN Call("get", tx, r) /\ log' = Logged(tx, "get", key, "", r)

TxSet(tx, key, value) ==
    /\ CanCall(tx)
    /\ LET r == kvt_set(Eng, tx, T1, key, value)
       IN Call("set", tx, r) /\ log' = Logged(tx, "set", key, value, r)

TxDel(tx, key) ==
    /\ CanCall(tx)
    /\ LET r == kvt_del(Eng, tx, T1, key)
       IN Call("del", tx, r) /\ log' = Logged(tx, "del", key, "", r)

TxCommit(tx) ==
    /\ alive
    /\ Has(transactions, tx)
    /\ LET r == kvt_commit_transaction(Eng, tx)
       IN Call("commit", tx, r) /\ log' = Ended(tx, r)

TxRollback(tx) ==
    /\ alive
    /\ Has(transactions, tx)
    /\ LET r == kvt_rollback_transaction(Eng, tx)
       IN Call("rollback", tx, r) /\ log' = [log EXCEPT ![tx].end = "ROLLED_BACK"]

TxNext ==
    \/ TxStart
    \/ \E tx \in 1..MaxTx, k \in Keys : TxGet(tx, k)
    \/ \E tx \in 1..MaxTx, k \in Keys, v \in Vals : TxSet(tx, k, v)
    \/ \E tx \in 1..MaxTx, k \in Keys : TxDel(tx, k)
    \/ \E tx \in 1..MaxTx : TxCommit(tx)
    \/ \E tx \in 1..MaxTx : TxRollback(tx)

SpecTx == InitTx /\ [][TxNext]_vars

\* the same clients on the 2PL manager; key b is in the table, unlocked
TxData2PL == (<<T1, <<"b">>>> :> Entry("x", 0))

InitTx2PL ==
    /\ strategy = "2PL"
    /\ table_data = TxData2PL
    /\ transactions = EmptyMap
    /\ next_tx_id = 1
    /\ current_tx_id = 0
    /\ write_set = EmptyMap
    /\ delete_set = {}
    /\ tables = {T1}
    /\ alive = TRUE
    /\ ret = NoRet
    /\ log = NoLog

SpecTx2PL == InitTx2PL /\ [][TxNext]_vars

(* A serial execution: the committed transactions one after another, each  *)
(* begun, replayed call by call and committed before the next begins.      *)

SerialStart ==
    [strategy |-> "OCC", data |-> TxData, txs |-> EmptyMap, next_tx_id |-> 1,
     current_tx_id |-> 0, write_set |-> EmptyMap, delete_set |-> {},
     tables |-> {T1}, alive |-> TRUE]

ReplayCall(e, tx, c) ==
    CASE c.op = "get" -> kvt_get(e, tx, T1, c.key)
      [] c.op = "set" -> kvt_set(e, tx, T1, c.key, c.value)
      [] c.op = "del" -> kvt_del(e, tx, T1, c.key)

\* [eng, same]: same is TRUE while every call returns what the log says
RECURSIVE ReplayOps(_, _, _, _)
ReplayOps(e, tx, ops, same) ==
    IF ops = <<>> THEN [eng |-> e, same |-> same]
    ELSE LET c == Head(ops)
             r == ReplayCall(e, tx, c)
         IN ReplayOps(r.eng, tx, Tail(ops),
                      same /\ r.err = c.err /\ r.value = c.out)

ReplayTx(e, t) ==
    LET b == kvt_start_transaction(e)
        o == ReplayOps(b.eng, b.value, log[t].ops, TRUE)
        c == kvt_commit_transaction(o.eng, b.value)
    IN [eng |-> c.eng, same |-> o.same /\ c.err = "SUCCESS"]

RECURSIVE ReplayOrder(_, _, _)
ReplayOrder(e, order, same) ==
    IF order = <<>> THEN [eng |-> e, same |-> same]
    ELSE LET r == ReplayTx(e, Head(order))
         IN ReplayOrder(r.eng, Tail(order), same /\ r.same)

Committed == {t \in 1..MaxTx : log[t].end = "SUCCESS"}

Orders(S) ==
    {o \in [1..Cardinality(S) -> S] : \A i, j \in 1..Cardinality(S) : i # j => o[i] # o[j]}

\* the payloads of a table, versions left aside
Payloads(data) == [k \in DOMAIN data |-> data[k].data]

Serializable ==
    \E o \in Orders(Committed) :
        LET r == ReplayOrder(SerialStart, o, TRUE)
        IN r.same /\ Payloads(r.eng.data) = Payloads(table_data)

\* the serial execution on the 2PL manager: a call that was refused with
\* KEY_IS_LOCKED is left out, and a transaction that committed before another
\* began goes before it
SerialStart2PL ==
    [strategy |-> "2PL", data |-> TxData2PL, txs |-> EmptyMap, next_tx_id |-> 1,
     current_tx_id |-> 0, write_set |-> EmptyMap, delete_set |-> {},
     tables |-> {T1}, alive |-> TRUE]

Granted(ops) == SelectSeq(ops, LAMBDA c : c.err # "KEY_IS_LOCKED")

ReplayGranted(e, t) ==
    LET b == kvt_start_transaction(e)
        o == ReplayOps(b.eng, b.value, Granted(log[t].ops), TRUE)
        c == kvt_commit_transaction(o.eng, b.value)
    IN [eng |-> c.eng, same |-> o.same /\ c.err = "SUCCESS"]

RECURSIVE ReplayGrantedOrder(_, _, _)
ReplayGrantedOrder(e, order, same) ==
    IF order = <<>> THEN [eng |-> e, same |-> same]
    ELSE LET r == ReplayGranted(e, Head(order))
         IN ReplayGrantedOrder(r.eng, Tail(order), same /\ r.same)

InRealTimeOrder(o) ==
    \A i, j \in 1..Len(o) : log[o[j]].seq <= log[o[i]].base => j < i

\* the committed payloads of the 2PL table: an entry that only stands for the
\* new key of an open transaction is none
CommittedPayloads ==
    [k \in {c \in DOMAIN table_data :
               ~\E t \in DOMAIN transactions :
                   /\ Has(transactions[t].write_set, c)
                   /\ transactions[t].write_set[c].metadata = 1} |-> table_data[k].data]

StrictlySerializable ==
    \E o \in Orders(Committed) :
        /\ InRealTimeOrder(o)
        /\ LET r == ReplayGrantedOrder(SerialStart2PL, o, TRUE)
           IN r.same /\ Payloads(r.eng.data) = CommittedPayloads

----------------------------------------------------------------------------
(* KVTKeyEncoder: keys are strings, here sequences of characters *)

VERTEX_PREFIX == "v"
EDGE_PREFIX == "e"
REVERSE_EDGE_PREFIX == "r"
SEPARATOR == ":"

DigitChars == <<"0", "1", "2", "3", "4", "5", "6", "7", "8", "9">>
IsDigit(c) == \E i \in 1..10 : DigitChars[i] = c
DigitValue(c) == (CHOOSE i \in 1..10 : DigitChars[i] = c) - 1

\* std::to_string of a non-negative integer
RECURSIVE to_string(_)
to_string(n) ==
    IF n < 10 THEN <<DigitChars[n + 1]>>
    ELSE to_string(n \div 10) \o <<DigitChars[(n % 10) + 1]>>

\* the number written by the leading digits of s, as std::stoi reads it
RECURSIVE LeadingNumber(_, _)
LeadingNumber(s, acc) ==
    IF s = <<>> \/ ~IsDigit(Head(s)) THEN acc
    ELSE LeadingNumber(Tail(s), acc * 10 + DigitValue(Head(s)))

\* std::stoi throws unless the string starts with a digit
StoiThrows(s) == s = <<>> \/ ~IsDigit(s[1])
Stoi(s) == LeadingNumber(s, 0)

AllDigits(s) == s # <<>> /\ \A i \in 1..Len(s) : IsDigit(s[i])

\* nebula::Value, of the types vertex ids take here
StrValue(s) == [type |-> "STRING", str |-> s, int |-> 0]
IntValue(i) == [type |-> "INT", str |-> <<>>, int |-> i]

valueToKeyString(value) ==
    IF value.type = "INT" THEN to_string(value.int) ELSE value.str

\* a string that std::stoll consumes entirely becomes an INT, any other string
\* of the alphabet used here stays a STRING
keyStringToValue(str) ==
    IF AllDigits(str) THEN IntValue(Stoi(str)) ELSE StrValue(str)

RECURSIVE escapeValue(_)
escapeValue(value) ==
    IF value = <<>> THEN <<>>
    ELSE LET c == Head(value)
         IN (IF c = SEPARATOR THEN <<"\\", ":">>
             ELSE IF c = "\\" THEN <<"\\", "\\">>
             ELSE <<c>>) \o escapeValue(Tail(value))

RECURSIVE Unescape(_, _)
Unescape(value, escaped) ==
    IF value = <<>> THEN <<>>
    ELSE LET c == Head(value)
         IN IF escaped THEN <<c>> \o Unescape(Tail(value), FALSE)
            ELSE IF c = "\\" THEN Unescape(Tail(value), TRUE)
            ELSE <<c>> \o Unescape(Tail(value), FALSE)

unescapeValue(value) == Unescape(value, FALSE)

\* while (std::getline(ss, token, SEPARATOR)) tokens.push_back(token): the
\* text is cut at every separator, escaped or not, and an empty rest after the
\* last separator gives no token
RECURSIVE Tokens(_, _)
Tokens(s, token) ==
    IF s = <<>> THEN (IF token = <<>> THEN <<>> ELSE <<token>>)
    ELSE IF Head(s) = SEPARATOR THEN <<token>> \o Tokens(Tail(s), <<>>)
    ELSE Tokens(Tail(s), Append(token, Head(s)))

RECURSIVE Joined(_)
Joined(parts) ==
    IF Len(parts) = 1 THEN parts[1]
    ELSE parts[1] \o <<SEPARATOR>> \o Joined(Tail(parts))

encodeVertexKey(spaceId, partId, vertexId, tagId) ==
    Joined(<<<<VERTEX_PREFIX>>, to_string(spaceId), to_string(partId),
             escapeValue(valueToKeyString(vertexId)), to_string(tagId)>>)

encodeEdgeKey(spaceId, partId, srcId, edgeType, ranking, dstId) ==
    Joined(<<<<EDGE_PREFIX>>, to_string(spaceId), to_string(partId),
             escapeValue(valueToKeyString(srcId)), to_string(edgeType),
             to_string(ranking), escapeValue(valueToKeyString(dstId))>>)

encodeReverseEdgeKey(spaceId, partId, dstId, edgeType, ranking, srcId) ==
    Joined(<<<<REVERSE_EDGE_PREFIX>>, to_string(spaceId), to_string(partId),
             escapeValue(valueToKeyString(dstId)), to_string(edgeType),
             to_string(ranking), escapeValue(valueToKeyString(srcId))>>)

\* the prefixes, called with a vertex id and the default edgeType 0
vertexPrefix(spaceId, partId, vertexId) ==
    Joined(<<<<VERTEX_PREFIX>>, to_string(spaceId), to_string(partId),
             escapeValue(valueToKeyString(vertexId))>>) \o <<SEPARATOR>>

edgePrefix(spaceId, partId, srcId) ==
    Joined(<<<<EDGE_PREFIX>>, to_string(spaceId), to_string(partId),
             escapeValue(valueToKeyString(srcId))>>) \o <<SEPARATOR>>

reverseEdgePrefix(spaceId, partId, dstId) ==
    Joined(<<<<REVERSE_EDGE_PREFIX>>, to_string(spaceId), to_string(partId),
             escapeValue(valueToKeyString(dstId))>>) \o <<SEPARATOR>>

NoValue == StrValue(<<>>)

decodeReverseEdgeKey(key) ==
    LET tokens == Tokens(key, <<>>)
        failed == [ok |-> FALSE, spaceId |-> 0, partId |-> 0, dstId |-> NoValue,
                   edgeType |-> 0, ranking |-> 0, srcId |-> NoValue]
    IN IF key = <<>> \/ key[1] # REVERSE_EDGE_PREFIX THEN failed
       ELSE IF Len(tokens) # 7 THEN failed
       ELSE IF \E i \in {2, 3, 5, 6} : StoiThrows(tokens[i]) THEN failed
       ELSE [ok |-> TRUE, spaceId |-> Stoi(tokens[2]), partId |-> Stoi(tokens[3]),
             dstId |-> keyStringToValue(unescapeValue(tokens[4])),
             edgeType |-> Stoi(tokens[5]), ranking |-> Stoi(tokens[6]),
             srcId |-> keyStringToValue(unescapeValue(tokens[7]))]

decodeVertexKey(key) ==
    LET tokens == Tokens(key, <<>>)
        failed == [ok |-> FALSE, spaceId |-> 0, partId |-> 0, vertexId |-> NoValue,
                   tagId |-> 0]
    IN IF key = <<>> \/ key[1] # VERTEX_PREFIX THEN failed
       ELSE IF Len(tokens) # 5 THEN failed
       ELSE IF \E i \in {2, 3, 5} : StoiThrows(tokens[i]) THEN failed
       ELSE [ok |-> TRUE, spaceId |-> Stoi(tokens[2]), partId |-> Stoi(tokens[3]),
             vertexId |-> keyStringToValue(unescapeValue(tokens[4])),
             tagId |-> Stoi(tokens[5])]

decodeEdgeKey(key) ==
    LET tokens == Tokens(key, <<>>)
        failed == [ok |-> FALSE, spaceId |-> 0, partId |-> 0, srcId |-> NoValue,
                   edgeType |-> 0, ranking |-> 0, dstId |-> NoValue]
    IN IF key = <<>> \/ key[1] # EDGE_PREFIX THEN failed
       ELSE IF Len(tokens) # 7 THEN failed
       ELSE IF \E i \in {2, 3, 5, 6} : StoiThrows(tokens[i]) THEN failed
       ELSE [ok |-> TRUE, spaceId |-> Stoi(tokens[2]), partId |-> Stoi(tokens[3]),
             srcId |-> keyStringToValue(unescapeValue(tokens[4])),
             edgeType |-> Stoi(tokens[5]), ranking |-> Stoi(tokens[6]),
             dstId |-> keyStringToValue(unescapeValue(tokens[7]))]

----------------------------------------------------------------------------
(* KVTTransactionManager and KVTStorageClient over the engine *)

\* the tables createSpaceTables creates, in this order, in a fresh engine
VertexTable == 1
EdgeTable == 2
IndexTable == 3

\* PartitionID partId = 0, in every operation of the client
PartId == 0

\* scanEnd.push_back(0xFF)
ScanEnd(prefix) == Append(prefix, "HIGH")

VertexScanLimit == 1000
EdgeScanLimit == 10000

\* KVTTransactionManager::executeBatch(ops) with txId 0: ok is FALSE where it
\* returns an error status; started, committed, rolledBack are the calls of
\* incrementStarted, incrementCommitted, incrementRolledBack it makes (0 or 1)
executeBatch(e, ops) ==
    Then(kvt_start_transaction(e), LAMBDA b :
      IF b.err # "SUCCESS"
      THEN [eng |-> b.eng, ok |-> FALSE, results |-> <<>>,
            started |-> 0, committed |-> 0, rolledBack |-> 0]
      ELSE Then(kvt_batch_execute(b.eng, b.value, ops), LAMBDA x :
        IF x.err = "SUCCESS"
        THEN Then(kvt_commit_transaction(x.eng, b.value), LAMBDA c :
               IF c.err = "SUCCESS"
               THEN [eng |-> c.eng, ok |-> TRUE, results |-> x.value,
                     started |-> 1, committed |-> 1, rolledBack |-> 0]
               ELSE IF ~c.eng.alive
               THEN [eng |-> c.eng, ok |-> FALSE, results |-> <<>>,
                     started |-> 1, committed |-> 0, rolledBack |-> 0]
               ELSE [eng |-> kvt_rollback_transaction(c.eng, b.value).eng,
                     ok |-> FALSE, results |-> <<>>,
                     started |-> 1, committed |-> 0, rolledBack |-> 1])
        ELSE [eng |-> kvt_rollback_transaction(x.eng, b.value).eng,
              ok |-> x.err = "BATCH_NOT_FULLY_SUCCESS", results |-> x.value,
              started |-> 1, committed |-> 0, rolledBack |-> 1]))

\* cpp2::EdgeKey
EdgeKey(src, edge_type, ranking, dst) ==
    [src |-> src, edge_type |-> edge_type, ranking |-> ranking, dst |-> dst]

ForwardKey(space, ek) ==
    encodeEdgeKey(space, PartId, ek.src, ek.edge_type, ek.ranking, ek.dst)

ReverseKey(space, ek) ==
    encodeReverseEdgeKey(space, PartId, ek.dst, ek.edge_type, ek.ranking, ek.src)

\* the batch addEdges builds: per edge an optional GET, SET forward, SET reverse
RECURSIVE AddEdgesOps(_, _, _, _)
AddEdgesOps(space, edges, value, ifNotExists) ==
    IF edges = <<>> THEN <<>>
    ELSE LET ek == Head(edges)
             check == IF ifNotExists
                      THEN <<KVTOp("OP_GET", EdgeTable, ForwardKey(space, ek), "")>>
                      ELSE <<>>
         IN check \o <<KVTOp("OP_SET", EdgeTable, ForwardKey(space, ek), value),
                       KVTOp("OP_SET", EdgeTable, ReverseKey(space, ek), value)>>
                  \o AddEdgesOps(space, Tail(edges), value, ifNotExists)

\* the loop that reads the batch results back, one target (vertex tag, edge)
\* per round with resultIdx = idx - 1: SKIPPED where the GET succeeded, else
\* WRITTEN (successCount++) or FAILED (failureCount++) by the next result,
\* NONE where the results are used up
RECURSIVE AddOutcomes(_, _, _, _)
AddOutcomes(n, results, idx, ifNotExists) ==
    IF n = 0 THEN <<>>
    ELSE IF ifNotExists /\ idx <= Len(results) /\ results[idx].error = "SUCCESS"
    THEN <<"SKIPPED">> \o AddOutcomes(n - 1, results, idx + 2, ifNotExists)
    ELSE LET j == IF ifNotExists /\ idx <= Len(results) THEN idx + 1 ELSE idx
         IN IF j <= Len(results)
            THEN <<IF results[j].error = "SUCCESS" THEN "WRITTEN" ELSE "FAILED">>
                 \o AddOutcomes(n - 1, results, j + 1, ifNotExists)
            ELSE <<"NONE">> \o AddOutcomes(n - 1, results, j, ifNotExists)

\* ErrorCode code = failureCount > 0 ? E_PARTIAL_SUCCEEDED : SUCCEEDED
CodeOf(outcomes) ==
    IF \E i \in 1..Len(outcomes) : outcomes[i] = "FAILED"
    THEN "E_PARTIAL_SUCCEEDED" ELSE "SUCCEEDED"

\* what an add call hands back: ok is FALSE where the response is marked
\* failed (executeBatch returned an error status)
AddResponse(r, n, ifNotExists) ==
    IF ~r.ok THEN [eng |-> r.eng, ok |-> FALSE, code |-> "FAILED", outcomes |-> <<>>]
    ELSE LET outcomes == AddOutcomes(n, r.results, 1, ifNotExists)
         IN [eng |-> r.eng, ok |-> TRUE, code |-> CodeOf(outcomes), outcomes |-> outcomes]

\* value stands for KVTValueEncoder::encodeNewEdge(edge, propNames)
addEdges(e, space, edges, value, ifNotExists) ==
    Then(executeBatch(e, AddEdgesOps(space, edges, value, ifNotExists)),
         LAMBDA r : AddResponse(r, Len(edges), ifNotExists))

RECURSIVE DeleteEdgesOps(_, _)
DeleteEdgesOps(space, edges) ==
    IF edges = <<>> THEN <<>>
    ELSE <<KVTOp("OP_DEL", EdgeTable, ForwardKey(space, Head(edges)), ""),
           KVTOp("OP_DEL", EdgeTable, ReverseKey(space, Head(edges)), "")>>
         \o DeleteEdgesOps(space, Tail(edges))

\* failureCount = 0: every result is SUCCESS or KEY_NOT_FOUND
NoFailure(results) ==
    \A i \in 1..Len(results) : results[i].error \in {"SUCCESS", "KEY_NOT_FOUND"}

deleteEdges(e, space, edges) ==
    Then(executeBatch(e, DeleteEdgesOps(space, edges)), LAMBDA r :
         [eng |-> r.eng, ok |-> r.ok,
          code |-> IF ~r.ok THEN "FAILED"
                   ELSE IF NoFailure(r.results) THEN "SUCCEEDED"
                   ELSE "E_PARTIAL_SUCCEEDED"])

\* addVertices for vertices of one tag each, the tag being in propNames
RECURSIVE AddVerticesOps(_, _, _, _)
AddVerticesOps(space, vertices, value, ifNotExists) ==
    IF vertices = <<>> THEN <<>>
    ELSE LET key == encodeVertexKey(space, PartId, Head(vertices).id, Head(vertices).tag)
             check == IF ifNotExists THEN <<KVTOp("OP_GET", VertexTable, key, "")>>
                      ELSE <<>>
         IN check \o <<KVTOp("OP_SET", VertexTable, key, value)>>
                  \o AddVerticesOps(space, Tail(vertices), value, ifNotExists)

addVertices(e, space, vertices, value, ifNotExists) ==
    Then(executeBatch(e, AddVerticesOps(space, vertices, value, ifNotExists)),
         LAMBDA r : AddResponse(r, Len(vertices), ifNotExists))

\* one DEL per scanned row
DelOps(tid, rows) == [i \in 1..Len(rows) |-> KVTOp("OP_DEL", tid, rows[i][1], "")]

\* per incoming edge: DEL of the reverse key and, if it decodes, of the forward key
RECURSIVE IncomingOps(_)
IncomingOps(rows) ==
    IF rows = <<>> THEN <<>>
    ELSE LET reverseKey == Head(rows)[1]
             d == decodeReverseEdgeKey(reverseKey)
             fwd == IF d.ok
                    THEN <<KVTOp("OP_DEL", EdgeTable,
                                 encodeEdgeKey(d.spaceId, d.partId, d.srcId,
                                               d.edgeType, d.ranking, d.dstId), "")>>
                    ELSE <<>>
         IN <<KVTOp("OP_DEL", EdgeTable, reverseKey, "")>> \o fwd \o IncomingOps(Tail(rows))

\* the loop of deleteVertices over ids: three scans per vertex inside the
\* transaction; the scan of incoming edges is taken with the space and the
\* vertex id of the iteration. acc = [eng, ops, scansOk]; scansOk records that
\* no scan returned an error (the client itself keeps no such record)
RECURSIVE CollectDeletes(_, _, _, _)
CollectDeletes(acc, tx, space, ids) ==
    IF ids = <<>> \/ ~acc.eng.alive THEN acc
    ELSE LET vertexId == Head(ids)
             Ok(s) == s.err = "SUCCESS"
             vp == vertexPrefix(space, PartId, vertexId)
             ep == edgePrefix(space, PartId, vertexId)
             rp == reverseEdgePrefix(space, PartId, vertexId)
             Dels(s, ops) == IF s.err = "SUCCESS" THEN ops ELSE <<>>
         IN Then(kvt_scan(acc.eng, tx, VertexTable, vp, ScanEnd(vp), VertexScanLimit),
              LAMBDA s1 :
                IF ~s1.eng.alive
                THEN [eng |-> s1.eng, ops |-> acc.ops, scansOk |-> acc.scansOk]
                ELSE Then(kvt_scan(s1.eng, tx, EdgeTable, ep, ScanEnd(ep), EdgeScanLimit),
                  LAMBDA s2 :
                    IF ~s2.eng.alive
                    THEN [eng |-> s2.eng, ops |-> acc.ops, scansOk |-> acc.scansOk]
                    ELSE Then(kvt_scan(s2.eng, tx, EdgeTable, rp, ScanEnd(rp), EdgeScanLimit),
                      LAMBDA s3 :
                        Then([eng |-> s3.eng,
                              scansOk |-> acc.scansOk /\ Ok(s1) /\ Ok(s2) /\ Ok(s3),
                              ops |-> acc.ops \o Dels(s1, DelOps(VertexTable, s1.value))
                                              \o Dels(s2, DelOps(EdgeTable, s2.value))
                                              \o Dels(s3, IncomingOps(s3.value))],
                             LAMBDA next : CollectDeletes(next, tx, space, Tail(ids))))))

\* ok: the response carries ErrorCode::SUCCEEDED; code: what the response
\* carries; failed: a scan, a DEL (other than by KEY_NOT_FOUND) or the commit
\* returned an error
deleteVertices(e, space, ids) ==
    Then(kvt_start_transaction(e), LAMBDA b :
      IF b.err # "SUCCESS"
      THEN [eng |-> b.eng, ok |-> FALSE, code |-> "FAILED", failed |-> TRUE]
      ELSE Then(CollectDeletes([eng |-> b.eng, ops |-> <<>>, scansOk |-> TRUE],
                               b.value, space, ids),
        LAMBDA a :
          IF ~a.eng.alive
          THEN [eng |-> a.eng, ok |-> FALSE, code |-> "FAILED", failed |-> TRUE]
          ELSE Then(kvt_batch_execute(a.eng, b.value, a.ops), LAMBDA x :
                 Then(kvt_commit_transaction(x.eng, b.value), LAMBDA c :
                   IF c.err = "SUCCESS"
                   THEN [eng |-> c.eng, ok |-> NoFailure(x.value),
                         code |-> IF NoFailure(x.value) THEN "SUCCEEDED"
                                  ELSE "E_PARTIAL_SUCCEEDED",
                         failed |-> ~a.scansOk \/ ~NoFailure(x.value)]
                   ELSE IF ~c.eng.alive
                   THEN [eng |-> c.eng, ok |-> FALSE, code |-> "FAILED", failed |-> TRUE]
                   ELSE \* ~KVTTransaction rolls the transaction back
                        [eng |-> kvt_rollback_transaction(c.eng, b.value).eng,
                         ok |-> FALSE, code |-> "FAILED", failed |-> TRUE]))))

(* The storage client called by one caller after another on a fresh OCC    *)
(* engine (what kvt_initialize installs), in space 1                        *)

Space == 1
Vids == {StrValue(<<"a">>), StrValue(<<"b">>)}
EdgeKeys == {EdgeKey(s, 1, 0, d) : s, d \in Vids}
EdgeLists == {<<ek>> : ek \in EdgeKeys}
                \cup {<<EdgeKey(StrValue(<<"a">>), 1, 0, StrValue(<<"b">>)),
                        EdgeKey(StrValue(<<"b">>), 1, 0, StrValue(<<"a">>))>>}
VertexLists == {<<[id |-> v, tag |-> 1]>> : v \in Vids}
IdLists == {<<v>> : v \in Vids} \cup {<<StrValue(<<"a">>), StrValue(<<"b">>)>>}

InitGraph == InitEngine("OCC", {VertexTable, EdgeTable, IndexTable})

\* every call of the client takes one transaction id: MaxCalls bounds them,
\* and MaxVersion the versions its SETs raise
CanServe == alive /\ next_tx_id <= MaxCalls

SetRoom(ops) ==
    \A i \in 1..Len(ops) :
        LET k == <<ops[i].table_id, ops[i].key>>
        IN (ops[i].op = "OP_SET" /\ Has(table_data, k)) =>
              table_data[k].metadata < MaxVersion

Served(op, r) ==
    /\ SetEngine(r.eng)
    /\ ret' = [op |-> op, tx |-> 0, err |-> IF r.ok THEN "SUCCEEDED" ELSE "FAILED"]
    /\ UNCHANGED log

AddVertices(vertices, value, ifNotExists) ==
    /\ CanServe
    /\ SetRoom(AddVerticesOps(Space, vertices, value, ifNotExists))
    /\ Served("addVertices", addVertices(Eng, Space, vertices, value, ifNotExists))

AddEdges(edges, value, ifNotExists) ==
    /\ CanServe
    /\ SetRoom(AddEdgesOps(Space, edges, value, ifNotExists))
    /\ Served("addEdges", addEdges(Eng, Space, edges, value, ifNotExists))

DeleteEdges(edges) ==
    /\ CanServe
    /\ Served("deleteEdges", deleteEdges(Eng, Space, edges))

DeleteVertices(ids) ==
    /\ CanServe
    /\ Served("deleteVertices", deleteVertices(Eng, Space, ids))

GraphNext ==
    \/ \E vs \in VertexLists, v \in Vals, b \in BOOLEAN : AddVertices(vs, v, b)
    \/ \E es \in EdgeLists, v \in Vals, b \in BOOLEAN : AddEdges(es, v, b)
    \/ \E es \in EdgeLists : DeleteEdges(es)
    \/ \E ids \in IdLists : DeleteVertices(ids)

SpecGraph == InitGraph /\ [][GraphNext]_vars

\* kvt_drop_table by another user of the store; the client keeps the table ids
\* it has cached
DropTable(tid) ==
    /\ alive
    /\ LET r == Base_drop_table(Eng, tid)
       IN /\ SetEngine(r.eng)
          /\ ret' = [op |-> "drop_table", tx |-> 0, err |-> r.err]
    /\ UNCHANGED log

GraphDropNext ==
    \/ \E vs \in VertexLists, v \in Vals, b \in BOOLEAN : AddVertices(vs, v, b)
    \/ \E es \in EdgeLists, v \in Vals, b \in BOOLEAN : AddEdges(es, v, b)
    \/ \E es \in EdgeLists : DeleteEdges(es)
    \/ \E ids \in IdLists : DeleteVertices(ids)
    \/ \E tid \in {VertexTable, EdgeTable} : DropTable(tid)

SpecGraphDrop == InitGraph /\ [][GraphDropNext]_vars

----------------------------------------------------------------------------
(* Transactions of the OCC engine next to drop_table and create_table of   *)
(* the one table name in use. In this specification log holds the          *)
(* manager's next_table_id.                                                *)

\* the table ids create_table hands out
MaxTableId == 3

\* KVTMemManagerBase::create_table of the one table name in use: the name is
\* taken while a table exists; the new table gets the id next_table_id
Base_create_table(e, next_table_id) ==
    IF e.tables # {} THEN Result(e, "TABLE_ALREADY_EXISTS", 0)
    ELSE Result([e EXCEPT !.tables = {next_table_id}], "SUCCESS", next_table_id)

\* kvt_initialize, then create_table of the table: its id is 1
InitDrop ==
    /\ strategy = "OCC"
    /\ table_data = EmptyMap
    /\ transactions = EmptyMap
    /\ next_tx_id = 1
    /\ current_tx_id = 0
    /\ write_set = EmptyMap
    /\ delete_set = {}
    /\ tables = {T1}
    /\ alive = TRUE
    /\ ret = NoRet
    /\ log = [next_table_id |-> T1 + 1]

CreateTable ==
    /\ alive
    /\ log.next_table_id <= MaxTableId
    /\ LET r == Base_create_table(Eng, log.next_table_id)
       IN /\ SetEngine(r.eng)
          /\ ret' = [op |-> "create_table", tx |-> 0, err |-> r.err]
          /\ log' = IF r.err = "SUCCESS"
                    THEN [next_table_id |-> log.next_table_id + 1]
                    ELSE log

\* the clients keep using the table id they were given first
DropNext ==
    \/ StartTransaction(MaxOpen, MaxTx)
    \/ \E tx \in 1..MaxTx : CommitTransaction(tx)
    \/ \E tx \in 1..MaxTx : RollbackTransaction(tx)
    \/ \E tx \in 0..MaxTx, k \in HotKeys : Get(tx, k)
    \/ \E tx \in 0..MaxTx, k \in HotKeys, v \in Vals : Set(tx, k, v)
    \/ \E tx \in 0..MaxTx, k \in HotKeys : Del(tx, k)
    \/ \E tid \in 1..MaxTableId : DropTable(tid)
    \/ CreateTable

SpecDrop == InitDrop /\ [][DropNext]_vars

----------------------------------------------------------------------------
(* KVTTransaction (the RAII holder of a transaction id) and                *)
(* KVTTransactionManager, on the OCC engine that kvt_initialize installs.  *)
(* In this specification log holds the client side: the holders, the       *)
(* manager's Stats, and two records kept for comparison: begun, the number *)
(* of transactions the manager has begun, and commits, the ids of those    *)
(* whose kvt_commit_transaction returned SUCCESS                           *)

MaxHolders == 2
\* transaction ids handed out to the manager's clients are 1..MaxMgrTx
MaxMgrTx == 3
Holders == 1..MaxHolders
RetryCounts == {0, 1, 2}

\* KVTTransaction(txId): txId_(txId), committed_(false); live is FALSE for a
\* slot that holds no object
KVTTransaction(txId) == [live |-> TRUE, txId_ |-> txId, committed_ |-> FALSE]
NoHolder == [live |-> FALSE, txId_ |-> 0, committed_ |-> FALSE]

NoStats == [totalStarted |-> 0, totalCommitted |-> 0, totalRolledBack |-> 0,
            totalRetries |-> 0, totalConflicts |-> 0]

holders == log.holders
stats_ == log.stats

\* error_msg of commit_transaction, and the text of the Status that
\* KVTTransaction::commit makes of it
MSG_TRANSACTION == <<"T", "r", "a", "n", "s", "a", "c", "t", "i", "o", "n", " ">>
MSG_NOT_FOUND == <<" ", "n", "o", "t", " ", "f", "o", "u", "n", "d">>
MSG_STALE == <<" ", "h", "a", "s", " ", "s", "t", "a", "l", "e", " ", "d", "a", "t", "a">>
MSG_FAILED_COMMIT == <<"F", "a", "i", "l", "e", "d", " ", "t", "o", " ", "c", "o", "m", "m", "i", "t", " ", "t", "r", "a", "n", "s", "a", "c", "t", "i", "o", "n", ":", " ">>
PAT_STALE_DATA == <<"S", "T", "A", "L", "E", "_", "D", "A", "T", "A">>
PAT_LOCKED == <<"L", "O", "C", "K", "E", "D">>

commit_error_msg(err, tx) ==
    CASE err = "TRANSACTION_HAS_STALE_DATA" -> MSG_TRANSACTION \o to_string(tx) \o MSG_STALE
      [] err = "TRANSACTION_NOT_FOUND" -> MSG_TRANSACTION \o to_string(tx) \o MSG_NOT_FOUND
      [] OTHER -> <<>>

\* std::string::find(pat) != npos
Contains(text, pat) ==
    \E i \in 0..(Len(text) - Len(pat)) : SubSeq(text, i + 1, i + Len(pat)) = pat

\* a destructor that leaves the transaction alone
KVTTransaction_dtor_idle(e, h) == e

\* ~KVTTransaction: whether it calls kvt_rollback_transaction, and the engine
\* after it
KVTTransaction_dtor_rolls_back(h) == ~h.committed_ /\ h.txId_ # 0

KVTTransaction_dtor(e, h) ==
    IF KVTTransaction_dtor_rolls_back(h)
    THEN kvt_rollback_transaction(e, h.txId_).eng
    ELSE e

\* KVTTransaction::commit: called is TRUE where kvt_commit_transaction is
\* reached, err is what it returned
KVTTransaction_commit(e, h) ==
    IF h.committed_ \/ h.txId_ = 0
    THEN [eng |-> e, holder |-> h, ok |-> FALSE, called |-> FALSE, err |-> "",
          message |-> <<>>]
    ELSE Then(kvt_commit_transaction(e, h.txId_), LAMBDA c :
           [eng |-> c.eng,
            holder |-> [h EXCEPT !.committed_ = (c.err = "SUCCESS")],
            ok |-> c.err = "SUCCESS", called |-> TRUE, err |-> c.err,
            message |-> IF c.err = "SUCCESS" THEN <<>>
                        ELSE MSG_FAILED_COMMIT \o commit_error_msg(c.err, h.txId_)])

\* KVTTransaction::rollback: committed_ = true marks the holder as handled
KVTTransaction_rollback(e, h) ==
    IF h.committed_ \/ h.txId_ = 0
    THEN [eng |-> e, holder |-> h, ok |-> FALSE, called |-> FALSE]
    ELSE Then(kvt_rollback_transaction(e, h.txId_), LAMBDA r :
           [eng |-> r.eng,
            holder |-> [h EXCEPT !.committed_ = (r.err = "SUCCESS")],
            ok |-> r.err = "SUCCESS", called |-> TRUE])

\* a move that leaves other as it was
KVTTransaction_move_copy(other) ==
    [target |-> [live |-> TRUE, txId_ |-> other.txId_, committed_ |-> other.committed_],
     source |-> other]

\* KVTTransaction(KVTTransaction&& other): the new object and what is left of
\* other
KVTTransaction_move(other) ==
    [target |-> [live |-> TRUE, txId_ |-> other.txId_, committed_ |-> other.committed_],
     source |-> [other EXCEPT !.txId_ = 0, !.committed_ = TRUE]]

\* operator=(KVTTransaction&& other) on another object
KVTTransaction_assign(e, this, other) ==
    [eng |-> KVTTransaction_dtor(e, this),
     target |-> [live |-> TRUE, txId_ |-> other.txId_, committed_ |-> other.committed_],
     source |-> [other EXCEPT !.txId_ = 0, !.committed_ = TRUE]]

Inc(st, field) == [st EXCEPT ![field] = @ + 1]

\* the body handed to executeWithRetry: calls on the engine, own ones with the
\* id of the attempt's transaction, the others one-shot; it returns an error
\* status at the first call that does not succeed
BodyCall(own, op, key, value) == [own |-> own, op |-> op, key |-> key, value |-> value]

RECURSIVE RunBody(_, _, _)
RunBody(e, tx, body) ==
    IF body = <<>> THEN [eng |-> e, ok |-> TRUE]
    ELSE LET c == Head(body)
             t == IF c.own THEN tx ELSE 0
         IN Then(CASE c.op = "get" -> kvt_get(e, t, T1, c.key)
                   [] c.op = "set" -> kvt_set(e, t, T1, c.key, c.value)
                   [] c.op = "del" -> kvt_del(e, t, T1, c.key),
                 LAMBDA r : IF r.err = "SUCCESS" THEN RunBody(r.eng, tx, Tail(body))
                            ELSE [eng |-> r.eng, ok |-> FALSE])

\* the commit status names a conflict that executeWithRetry retries
Retryable(message) == Contains(message, PAT_STALE_DATA) \/ Contains(message, PAT_LOCKED)

\* the for loop of executeWithRetry from attempt on; a = [eng, stats, invoked,
\* begun, commits] gathers the engine, the Stats, the invocations of the body,
\* the transactions begun and the ids committed; the unique_ptr tx is destroyed at the end of each round
RECURSIVE RetryLoop(_, _, _, _)
RetryLoop(a, body, attempt, maxRetries) ==
    IF attempt > maxRetries THEN [a EXCEPT !.ok = FALSE]
    ELSE Then(kvt_start_transaction(a.eng), LAMBDA b :
      IF b.err # "SUCCESS" THEN [a EXCEPT !.eng = b.eng, !.ok = FALSE]
      ELSE Then(RunBody(b.eng, b.value, body), LAMBDA f :
        LET tx == KVTTransaction(b.value)
            a1 == [a EXCEPT !.stats = Inc(a.stats, "totalStarted"),
                            !.begun = a.begun + 1, !.invoked = a.invoked + 1]
        IN IF ~f.ok
           THEN Then(KVTTransaction_rollback(f.eng, tx), LAMBDA r :
                  [a1 EXCEPT !.eng = KVTTransaction_dtor(r.eng, r.holder),
                             !.stats = Inc(a1.stats, "totalRolledBack"),
                             !.ok = FALSE])
           ELSE Then(KVTTransaction_commit(f.eng, tx), LAMBDA c :
                  IF c.ok
                  THEN [a1 EXCEPT !.eng = KVTTransaction_dtor(c.eng, c.holder),
                                  !.stats = Inc(a1.stats, "totalCommitted"),
                                  !.commits = a1.commits \cup {b.value}, !.ok = TRUE]
                  ELSE IF Retryable(c.message) /\ attempt < maxRetries
                  THEN RetryLoop([a1 EXCEPT
                                    !.eng = KVTTransaction_dtor(c.eng, c.holder),
                                    !.stats = Inc(Inc(a1.stats, "totalConflicts"),
                                                  "totalRetries")],
                                 body, attempt + 1, maxRetries)
                  ELSE [a1 EXCEPT
                          !.eng = KVTTransaction_dtor(c.eng, c.holder),
                          !.stats = Inc(IF Retryable(c.message)
                                        THEN Inc(a1.stats, "totalConflicts")
                                        ELSE a1.stats, "totalRolledBack"),
                          !.ok = FALSE])))

executeWithRetry(e, st, body, maxRetries) ==
    RetryLoop([eng |-> e, stats |-> st, invoked |-> 0, begun |-> 0, commits |-> {},
               ok |-> FALSE],
              body, 0, maxRetries)

\* bodies: a write; a read of key a under which a one-shot writer replaces a
Bodies ==
    {<<BodyCall(TRUE, "set", <<"a">>, v)>> : v \in Vals}
    \cup {<<BodyCall(TRUE, "get", <<"a">>, ""), BodyCall(FALSE, "set", <<"a">>, v),
            BodyCall(TRUE, "set", <<"b">>, v)>> : v \in Vals}

InitMgr ==
    /\ strategy = "OCC"
    /\ table_data = EmptyMap
    /\ transactions = EmptyMap
    /\ next_tx_id = 1
    /\ current_tx_id = 0
    /\ write_set = EmptyMap
    /\ delete_set = {}
    /\ tables = {T1}
    /\ alive = TRUE
    /\ ret = NoRet
    /\ log = [holders |-> [h \in Holders |-> NoHolder], stats |-> NoStats,
              begun |-> 0, commits |-> {}]

\* the caller keeps the holder of a new transaction in slot h
startTransaction(h) ==
    /\ alive /\ ~holders[h].live /\ next_tx_id <= MaxMgrTx
    /\ LET b == kvt_start_transaction(Eng)
       IN /\ SetEngine(b.eng)
          /\ ret' = [op |-> "startTransaction", tx |-> b.value, err |-> b.err]
          /\ log' = IF b.err # "SUCCESS" THEN log
                    ELSE [log EXCEPT !.holders[h] = KVTTransaction(b.value),
                                     !.stats = Inc(@, "totalStarted"),
                                     !.begun = @ + 1]

commit(h) ==
    /\ alive /\ holders[h].live
    /\ LET c == KVTTransaction_commit(Eng, holders[h])
       IN /\ SetEngine(c.eng)
          /\ ret' = [op |-> "commit", tx |-> holders[h].txId_,
                     err |-> IF c.called THEN c.err ELSE "NOT_CALLED"]
          /\ log' = [log EXCEPT !.holders[h] = c.holder,
                                !.commits = IF c.ok THEN @ \cup {holders[h].txId_} ELSE @]

rollback(h) ==
    /\ alive /\ holders[h].live
    /\ LET r == KVTTransaction_rollback(Eng, holders[h])
       IN /\ SetEngine(r.eng)
          /\ ret' = [op |-> "rollback", tx |-> holders[h].txId_,
                     err |-> IF r.called THEN "CALLED" ELSE "NOT_CALLED"]
          /\ log' = [log EXCEPT !.holders[h] = r.holder]

\* the holder goes out of scope
destroy(h) ==
    /\ alive /\ holders[h].live
    /\ SetEngine(KVTTransaction_dtor(Eng, holders[h]))
    /\ ret' = [op |-> "destroy", tx |-> holders[h].txId_,
               err |-> IF KVTTransaction_dtor_rolls_back(holders[h])
                       THEN kvt_rollback_transaction(Eng, holders[h].txId_).err
                       ELSE "NOT_CALLED"]
    /\ log' = [log EXCEPT !.holders[h] = NoHolder]

\* KVTTransaction t(std::move(o)) into the empty slot h
moveConstruct(h, o) ==
    /\ alive /\ ~holders[h].live /\ holders[o].live
    /\ LET m == KVTTransaction_move(holders[o])
       IN log' = [log EXCEPT !.holders[h] = m.target, !.holders[o] = m.source]
    /\ ret' = [op |-> "move", tx |-> holders[o].txId_, err |-> "", h |-> h, o |-> o]
    /\ SetEngine(Eng)

\* h = std::move(o)
moveAssign(h, o) ==
    /\ alive /\ holders[h].live /\ holders[o].live /\ h # o
    /\ LET m == KVTTransaction_assign(Eng, holders[h], holders[o])
       IN /\ SetEngine(m.eng)
          /\ log' = [log EXCEPT !.holders[h] = m.target, !.holders[o] = m.source]
    /\ ret' = [op |-> "assign", tx |-> holders[o].txId_, err |-> "", h |-> h, o |-> o]

\* calls of the engine with getId() of a holder
holderSet(h, key, value) ==
    /\ alive /\ holders[h].live /\ holders[h].txId_ # 0
    /\ Call("set", holders[h].txId_, kvt_set(Eng, holders[h].txId_, T1, key, value))
    /\ UNCHANGED log

holderGet(h, key) ==
    /\ alive /\ holders[h].live /\ holders[h].txId_ # 0
    /\ Call("get", holders[h].txId_, kvt_get(Eng, holders[h].txId_, T1, key))
    /\ UNCHANGED log

callExecuteWithRetry(body, maxRetries) ==
    /\ alive /\ next_tx_id + maxRetries <= MaxMgrTx
    /\ LET r == executeWithRetry(Eng, stats_, body, maxRetries)
       IN /\ SetEngine(r.eng)
          /\ ret' = [op |-> "executeWithRetry", tx |-> r.invoked,
                     err |-> IF r.ok THEN "OK" ELSE "ERROR"]
          /\ log' = [log EXCEPT !.stats = r.stats, !.begun = @ + r.begun,
                                !.commits = @ \cup r.commits]

callExecuteBatch(ops) ==
    /\ alive /\ next_tx_id <= MaxMgrTx
    /\ LET r == executeBatch(Eng, ops)
       IN /\ SetEngine(r.eng)
          /\ ret' = [op |-> "executeBatch", tx |-> 0,
                     err |-> IF r.ok THEN "OK" ELSE "ERROR"]
          /\ log' = [log EXCEPT
                       !.stats = [@ EXCEPT
                                    !.totalStarted = @ + r.started,
                                    !.totalCommitted = @ + r.committed,
                                    !.totalRolledBack = @ + r.rolledBack],
                       !.begun = @ + r.started,
                       !.commits = IF r.committed = 1 THEN @ \cup {next_tx_id}
                                   ELSE @]

MgrNext ==
    \/ \E h \in Holders : startTransaction(h)
    \/ \E h \in Holders : commit(h)
    \/ \E h \in Holders : rollback(h)
    \/ \E h \in Holders : destroy(h)
    \/ \E h, o \in Holders : moveConstruct(h, o)
    \/ \E h, o \in Holders : moveAssign(h, o)
    \/ \E h \in Holders, k \in HotKeys, v \in Vals : holderSet(h, k, v)
    \/ \E h \in Holders, k \in HotKeys : holderGet(h, k)
    \/ \E body \in Bodies, n \in RetryCounts : callExecuteWithRetry(body, n)
    \/ \E ops \in BatchInputs : callExecuteBatch(ops)

SpecMgr == InitMgr /\ [][MgrNext]_vars

----------------------------------------------------------------------------
(* KVTStorageClient::getNeighbors, called without vertex or edge           *)
(* properties and with dedup = false: its rows are (src, type, ranking,    *)
(* dst). The other calls of the client run between its calls of the engine *)

\* edgePrefix and reverseEdgePrefix called with an edge type
edgePrefixTyped(spaceId, partId, srcId, edgeType) ==
    edgePrefix(spaceId, partId, srcId)
      \o (IF edgeType # 0 THEN to_string(edgeType) \o <<SEPARATOR>> ELSE <<>>)

reverseEdgePrefixTyped(spaceId, partId, dstId, edgeType) ==
    reverseEdgePrefix(spaceId, partId, dstId)
      \o (IF edgeType # 0 THEN to_string(edgeType) \o <<SEPARATOR>> ELSE <<>>)

\* the reverse keys of a scan turned into forward keys; a key that does not
\* decode is dropped
RECURSIVE ForwardPairs(_)
ForwardPairs(inEdges) ==
    IF inEdges = <<>> THEN <<>>
    ELSE LET d == decodeReverseEdgeKey(Head(inEdges)[1])
         IN (IF d.ok
             THEN <<<<encodeEdgeKey(d.spaceId, d.partId, d.srcId, d.edgeType,
                                    d.ranking, d.dstId), Head(inEdges)[2]>>>>
             ELSE <<>>) \o ForwardPairs(Tail(inEdges))

\* one Row per edge key that decodes
RECURSIVE NeighborRows(_)
NeighborRows(edgeResults) ==
    IF edgeResults = <<>> THEN <<>>
    ELSE LET d == decodeEdgeKey(Head(edgeResults)[1])
         IN (IF d.ok
             THEN <<[src |-> d.srcId, edge_type |-> d.edgeType,
                     ranking |-> d.ranking, dst |-> d.dstId]>>
             ELSE <<>>) \o NeighborRows(Tail(edgeResults))

\* the scans of getNeighbors in the order it makes them: for each vid the
\* outgoing scans of every edge type, then the incoming ones
TypeScans(vid, edgeTypes, incoming) ==
    [i \in 1..Len(edgeTypes) |->
        [vid |-> vid, edgeType |-> edgeTypes[i], incoming |-> incoming]]

RECURSIVE ScanPlan(_, _, _)
ScanPlan(vids, edgeTypes, edgeDirection) ==
    IF vids = <<>> THEN <<>>
    ELSE (IF edgeDirection \in {"OUT_EDGE", "BOTH"}
          THEN TypeScans(Head(vids), edgeTypes, FALSE) ELSE <<>>)
         \o (IF edgeDirection \in {"IN_EDGE", "BOTH"}
             THEN TypeScans(Head(vids), edgeTypes, TRUE) ELSE <<>>)
         \o ScanPlan(Tail(vids), edgeTypes, edgeDirection)

\* one kvt_scan of getNeighbors and the rows it adds; a scan that fails adds
\* none
NeighborScan(e, txId, space, sc, limit) ==
    LET prefix == IF sc.incoming
                  THEN reverseEdgePrefixTyped(space, PartId, sc.vid, sc.edgeType)
                  ELSE edgePrefixTyped(space, PartId, sc.vid, sc.edgeType)
    IN Then(kvt_scan(e, txId, EdgeTable, prefix, ScanEnd(prefix),
                     IF limit > 0 THEN limit ELSE EdgeScanLimit),
            LAMBDA r :
              [eng |-> r.eng,
               rows |-> IF r.err # "SUCCESS" THEN <<>>
                        ELSE IF sc.incoming THEN NeighborRows(ForwardPairs(r.value))
                        ELSE NeighborRows(r.value)])

\* a = [eng, rows]
RECURSIVE RunPlan(_, _, _, _, _)
RunPlan(a, txId, space, plan, limit) ==
    IF plan = <<>> \/ ~a.eng.alive THEN a
    ELSE Then(NeighborScan(a.eng, txId, space, Head(plan), limit), LAMBDA r :
           RunPlan([eng |-> r.eng, rows |-> a.rows \o r.rows], txId, space,
                   Tail(plan), limit))

\* resultDataSet.rows.resize(limit), then tx->commit(); the holder is
\* destroyed on return
FinishNeighbors(e, txId, rows, limit) ==
    IF ~e.alive THEN [eng |-> e, ok |-> FALSE, rows |-> <<>>]
    ELSE Then(KVTTransaction_commit(e, KVTTransaction(txId)), LAMBDA c :
           [eng |-> KVTTransaction_dtor(c.eng, c.holder), ok |-> c.ok,
            rows |-> IF ~c.ok THEN <<>>
                     ELSE IF limit > 0 /\ Len(rows) > limit THEN SubSeq(rows, 1, limit)
                     ELSE rows])

\* the whole call with no other caller in between
getNeighbors(e, space, vids, edgeTypes, edgeDirection, limit) ==
    Then(kvt_start_transaction(e), LAMBDA b :
      IF b.err # "SUCCESS" THEN [eng |-> b.eng, ok |-> FALSE, rows |-> <<>>]
      ELSE Then(RunPlan([eng |-> b.eng, rows |-> <<>>], b.value, space,
                        ScanPlan(vids, edgeTypes, edgeDirection), limit),
                LAMBDA a : FinishNeighbors(a.eng, b.value, a.rows, limit)))

\* Here log is the call of getNeighbors in progress: its arguments, its
\* transaction, the scans still to make, the rows gathered, and snaps, the
\* committed contents of the tables from its start on
NbrVids == {<<StrValue(<<"a">>)>>, <<StrValue(<<"a">>), StrValue(<<"b">>)>>}
NbrTypes == {<<1>>, <<1, 2>>}
NbrDirections == {"OUT_EDGE", "IN_EDGE", "BOTH"}
NbrEdgeLists ==
    {<<EdgeKey(StrValue(<<"b">>), 1, 0, StrValue(<<"a">>))>>,
     <<EdgeKey(StrValue(<<"b">>), 2, 0, StrValue(<<"a">>))>>,
     <<EdgeKey(StrValue(<<"a">>), 1, 0, StrValue(<<"b">>))>>,
     <<EdgeKey(StrValue(<<"b">>), 1, 0, StrValue(<<"a">>)),
       EdgeKey(StrValue(<<"a">>), 1, 0, StrValue(<<"b">>))>>}
NbrEdges == UNION {{es[i] : i \in 1..Len(es)} : es \in NbrEdgeLists}

NoQuery == [pc |-> "idle", vids |-> <<>>, edgeTypes |-> <<>>, edgeDirection |-> "",
            txId |-> 0, plan |-> <<>>, rows |-> <<>>, snaps |-> {}]

InitNbr ==
    /\ strategy = "OCC"
    /\ table_data = EmptyMap
    /\ transactions = EmptyMap
    /\ next_tx_id = 1
    /\ current_tx_id = 0
    /\ write_set = EmptyMap
    /\ delete_set = {}
    /\ tables = {VertexTable, EdgeTable, IndexTable}
    /\ alive = TRUE
    /\ ret = NoRet
    /\ log = NoQuery

\* a call of another client, while getNeighbors may be between two scans
Written(op, r) ==
    /\ SetEngine(r.eng)
    /\ ret' = [op |-> op, tx |-> 0, err |-> IF r.ok THEN "SUCCEEDED" ELSE "FAILED"]
    /\ log' = IF log.pc = "scanning" THEN [log EXCEPT !.snaps = @ \cup {r.eng.data}]
              ELSE log

NbrAddEdges(edges) ==
    /\ CanServe
    /\ SetRoom(AddEdgesOps(Space, edges, "x", FALSE))
    /\ Written("addEdges", addEdges(Eng, Space, edges, "x", FALSE))

NbrDeleteEdges(edges) ==
    /\ CanServe
    /\ Written("deleteEdges", deleteEdges(Eng, Space, edges))

NbrDeleteVertices(ids) ==
    /\ CanServe
    /\ Written("deleteVertices", deleteVertices(Eng, Space, ids))

\* txManager.startTransaction()
NbrStart(vids, edgeTypes, edgeDirection) ==
    /\ CanServe /\ log.pc # "scanning"
    /\ LET b == kvt_start_transaction(Eng)
       IN /\ SetEngine(b.eng)
          /\ ret' = [op |-> "startTransaction", tx |-> b.value, err |-> b.err]
          /\ log' = IF b.err # "SUCCESS" THEN NoQuery
                    ELSE [pc |-> "scanning", vids |-> vids, edgeTypes |-> edgeTypes,
                          edgeDirection |-> edgeDirection, txId |-> b.value,
                          plan |-> ScanPlan(vids, edgeTypes, edgeDirection),
                          rows |-> <<>>, snaps |-> {table_data}]

\* the next kvt_scan
NbrScan ==
    /\ alive /\ log.pc = "scanning" /\ log.plan # <<>>
    /\ LET r == NeighborScan(Eng, log.txId, Space, Head(log.plan), 0)
       IN /\ SetEngine(r.eng)
          /\ ret' = [op |-> "scan", tx |-> log.txId, err |-> ""]
          /\ log' = [log EXCEPT !.plan = Tail(@), !.rows = @ \o r.rows]

\* tx->commit() and the response
NbrFinish ==
    /\ alive /\ log.pc = "scanning" /\ log.plan = <<>>
    /\ LET r == FinishNeighbors(Eng, log.txId, log.rows, 0)
       IN /\ SetEngine(r.eng)
          /\ ret' = [op |-> "getNeighbors", tx |-> log.txId,
                     err |-> IF r.ok THEN "SUCCEEDED" ELSE "FAILED"]
          /\ log' = [log EXCEPT !.pc = "done", !.rows = r.rows]

NbrNext ==
    \/ \E es \in NbrEdgeLists : NbrAddEdges(es)
    \/ \E es \in NbrEdgeLists : NbrDeleteEdges(es)
    \/ \E ids \in IdLists : NbrDeleteVertices(ids)
    \/ \E vids \in NbrVids, ts \in NbrTypes, d \in NbrDirections : NbrStart(vids, ts, d)
    \/ NbrScan
    \/ NbrFinish

SpecNbr == InitNbr /\ [][NbrNext]_vars

----------------------------------------------------------------------------
(* The key encoder on its own: log holds the identifiers of one key, ret   *)
(* the key built from them and what the decoder made of it                 *)

MaxIdLen == 2
IdChars == {"a", ":", "\\"}
IdStrings == UNION {[1..n -> IdChars] : n \in 1..MaxIdLen}
KeyIds == {StrValue(s) : s \in IdStrings} \cup {IntValue(1), IntValue(12)}
KeyEdgeTypes == {1, 20}
KeyRankings == {0, 3}
KeyTags == {2, 10}

InitKey ==
    /\ strategy = "OCC"
    /\ table_data = EmptyMap
    /\ transactions = EmptyMap
    /\ next_tx_id = 1
    /\ current_tx_id = 0
    /\ write_set = EmptyMap
    /\ delete_set = {}
    /\ tables = {VertexTable, EdgeTable, IndexTable}
    /\ alive = TRUE
    /\ ret = [op |-> "none", key |-> <<>>, decoded |-> [ok |-> FALSE]]
    /\ log \in [spaceId : {Space}, partId : {PartId}, a : KeyIds, b : KeyIds,
                 edgeType : KeyEdgeTypes, ranking : KeyRankings, tagId : KeyTags]

vertexKeyRoundTrip ==
    /\ ret' = LET key == encodeVertexKey(log.spaceId, log.partId, log.a, log.tagId)
               IN [op |-> "vertex", key |-> key, decoded |-> decodeVertexKey(key)]
    /\ UNCHANGED <<strategy, table_data, transactions, next_tx_id, current_tx_id,
                   write_set, delete_set, tables, alive, log>>

edgeKeyRoundTrip ==
    /\ ret' = LET key == encodeEdgeKey(log.spaceId, log.partId, log.a, log.edgeType,
                                       log.ranking, log.b)
               IN [op |-> "edge", key |-> key, decoded |-> decodeEdgeKey(key)]
    /\ UNCHANGED <<strategy, table_data, transactions, next_tx_id, current_tx_id,
                   write_set, delete_set, tables, alive, log>>

reverseEdgeKeyRoundTrip ==
    /\ ret' = LET key == encodeReverseEdgeKey(log.spaceId, log.partId, log.b,
                                              log.edgeType, log.ranking, log.a)
               IN [op |-> "reverse", key |-> key, decoded |-> decodeReverseEdgeKey(key)]
    /\ UNCHANGED <<strategy, table_data, transactions, next_tx_id, current_tx_id,
                   write_set, delete_set, tables, alive, log>>

KeyNext == vertexKeyRoundTrip \/ edgeKeyRoundTrip \/ reverseEdgeKeyRoundTrip

SpecKey == InitKey /\ [][KeyNext]_vars

----------------------------------------------------------------------------
(* Properties *)

Open == DOMAIN transactions

\* transaction t called get(k) and later set(k, _)
GetThenSet(t, k) ==
    \E i, j \in 1..Len(log[t].ops) :
        /\ i < j
        /\ log[t].ops[i].op = "get" /\ log[t].ops[i].key = k
        /\ log[t].ops[j].op = "set" /\ log[t].ops[j].key = k

\* C1: under OCC, when two open transactions have each called get(k) and then
\* set(k), committing one and then the other returns SUCCESS once and
\* TRANSACTION_HAS_STALE_DATA once, and k then holds the value staged by the
\* transaction whose commit succeeded.
C1_ExactlyOneCommits ==
    \A t1, t2 \in Open, k \in Keys :
        (t1 # t2 /\ GetThenSet(t1, k) /\ GetThenSet(t2, k)) =>
            LET r1 == kvt_commit_transaction(Eng, t1)
                r2 == kvt_commit_transaction(r1.eng, t2)
                winner == IF r1.err = "SUCCESS" THEN t1 ELSE t2
            IN /\ {r1.err, r2.err} = {"SUCCESS", "TRANSACTION_HAS_STALE_DATA"}
               /\ Has(r2.eng.data, <<T1, k>>)
               /\ r2.eng.data[<<T1, k>>].data =
                      transactions[winner].write_set[<<T1, k>>].data

\* C2: under OCC, the commit of an open transaction returns
\* TRANSACTION_HAS_STALE_DATA whenever a key of its read set is no longer in the
\* table or no longer holds the entry (payload and version) the transaction
\* observed, a key deleted and created again included.
C2_StaleWhenRewritten ==
    strategy = "OCC" =>
        \A t \in Open :
            (\E k \in DOMAIN transactions[t].read_set :
                \/ ~Has(table_data, k)
                \/ table_data[k] # transactions[t].read_set[k])
            => kvt_commit_transaction(Eng, t).err = "TRANSACTION_HAS_STALE_DATA"

\* the write set and delete set an open transaction has staged
StagedWrites(t) ==
    CASE strategy = "Simple" -> IF t = current_tx_id
                                THEN [k \in DOMAIN write_set |-> write_set[k]]
                                ELSE EmptyMap
      [] strategy = "NoCC" -> EmptyMap
      [] OTHER -> IF Has(transactions, t)
                  THEN [k \in DOMAIN transactions[t].write_set |->
                            transactions[t].write_set[k].data]
                  ELSE EmptyMap

StagedDeletes(t) ==
    CASE strategy = "Simple" -> IF t = current_tx_id THEN delete_set ELSE {}
      [] strategy = "NoCC" -> {}
      [] OTHER -> IF Has(transactions, t) THEN transactions[t].delete_set ELSE {}

\* a 2PL entry that stands in the table only as the lock of a key its holder created
IsPlaceholder(e, k) ==
    /\ e.strategy = "2PL"
    /\ Has(e.data, k)
    /\ Has(e.txs, e.data[k].metadata)
    /\ Has(e.txs[e.data[k].metadata].write_set, k)
    /\ e.txs[e.data[k].metadata].write_set[k].metadata = 1

\* what the tables hold apart from the marks of open transactions: under 2PL
\* the payloads of the keys that are no placeholder, else the entries
CommittedViewOf(e) ==
    IF e.strategy = "2PL"
    THEN [k \in {x \in DOMAIN e.data : ~IsPlaceholder(e, x)} |-> Entry(e.data[k].data, 0)]
    ELSE e.data

CommittedView == CommittedViewOf(Eng)

\* a call of a client transaction that returns and is no successful commit
UncommittedStep ==
    /\ alive'
    /\ ret'.tx # 0
    /\ ~(ret'.op = "commit" /\ ret'.err = "SUCCESS")

LeavesTables ==
    /\ CommittedView' = CommittedView
    /\ ret'.op \in {"commit", "rollback"} =>
          \A k \in DOMAIN table_data' :
              strategy = "2PL" => table_data'[k].metadata # ret'.tx

\* a transaction that begins, stages set(k, v) and is rolled back
AbortedRun(e, k, v) ==
    LET b == kvt_start_transaction(e)
        w == kvt_set(b.eng, b.value, T1, k, v)
        r == kvt_rollback_transaction(w.eng, b.value)
    IN [eng |-> r.eng,
        ran |-> b.err = "SUCCESS" /\ w.err = "SUCCESS" /\ r.err = "SUCCESS"]

\* C3 (as stated, every strategy): a transaction that begins, sets a key and is
\* rolled back leaves the tables as they were before it began.
C3_RolledBackSetIsUndone ==
    \A k \in Keys, v \in Vals :
        LET a == AbortedRun(Eng, k, v)
        IN a.ran => CommittedViewOf(a.eng) = CommittedView

\* C3 (amended: Simple, 2PL and OCC): under the strategies that stage their
\* writes, every call of a client transaction that is no successful commit
\* leaves the committed content of every table as it was, and once the
\* transaction has ended by rollback or failed commit no entry carries its lock.
C3_StagingStrategiesLeaveTables ==
    [][(strategy # "NoCC" /\ UncommittedStep) => LeavesTables]_vars

\* C3 witness: under 2PL an open transaction holds the placeholder of a key it
\* created, and its rollback takes the placeholder out of the table.
C3_Witness ==
    /\ strategy = "2PL"
    /\ \E t \in Open :
          /\ \E k \in DOMAIN table_data : IsPlaceholder(Eng, k) /\ table_data[k].metadata = t
          /\ LET r == kvt_rollback_transaction(Eng, t)
             IN r.err = "SUCCESS" /\ r.eng.data # table_data

\* C4: on the engine kvt_initialize installs, kvt_batch_execute with tx_id 0
\* is all or nothing: when it returns BATCH_NOT_FULLY_SUCCESS the tables are as
\* before the call, and when it returns SUCCESS every key it set holds the
\* value and every key it deleted is gone.
C4_OneShotBatchAllOrNothing ==
    \A ops \in BatchInputs :
        LET r == kvt_batch_execute(Eng, 0, ops)
        IN strategy = "OCC" =>
           /\ r.err = "BATCH_NOT_FULLY_SUCCESS" => r.eng.data = table_data
           /\ r.err = "SUCCESS" =>
                 \A i \in 1..Len(ops) :
                     LET k == <<ops[i].table_id, ops[i].key>>
                     IN /\ ops[i].op = "OP_SET" =>
                              Has(r.eng.data, k) /\ r.eng.data[k].data = ops[i].value
                        /\ ops[i].op = "OP_DEL" => ~Has(r.eng.data, k)

\* C6: while an open transaction has a write to k staged, a one-shot get of k
\* returns SUCCESS with the value the table held for k before that
\* transaction (2PL, whose one-shot get of a locked row is KEY_IS_LOCKED by
\* design, is left aside: the formula speaks of NoCC, Simple and OCC).
C6_OneShotGetSeesCommitted ==
    \A t \in 1..MaxTx, key \in Keys :
        LET k == <<T1, key>>
        IN (strategy # "2PL" /\ Has(StagedWrites(t), k) /\ Has(CommittedView, k)) =>
              LET r == kvt_get(Eng, 0, T1, key)
              IN r.err = "SUCCESS" /\ r.value = CommittedView[k].data

\* C7: under 2PL the lock field of every entry is 0 or the id of an open
\* transaction, and while it is the id of T every get, set and del of the key
\* by another open transaction or by a one-shot caller returns KEY_IS_LOCKED
\* and leaves the entry as it is.
C7_LockExcludesOthers ==
    strategy = "2PL" =>
        \A key \in Keys :
            LET k == <<T1, key>>
            IN Has(table_data, k) =>
                 /\ table_data[k].metadata \in Open \cup {0}
                 /\ table_data[k].metadata # 0 =>
                       \A u \in (Open \cup {0}) \ {table_data[k].metadata} :
                           \A r \in {kvt_get(Eng, u, T1, key), kvt_del(Eng, u, T1, key)}
                                    \cup {kvt_set(Eng, u, T1, key, v) : v \in Vals} :
                               /\ r.err = "KEY_IS_LOCKED"
                               /\ Has(r.eng.data, k)
                               /\ r.eng.data[k] = table_data[k]

\* C7 witness: a one-shot set has just been refused on a key an open
\* transaction holds.
C7_Witness ==
    /\ strategy = "2PL"
    /\ ret = [op |-> "set", tx |-> 0, err |-> "KEY_IS_LOCKED"]
    /\ \E k \in DOMAIN table_data : table_data[k].metadata \in Open

\* C8: for every strategy, when the commit of an open transaction returns
\* SUCCESS, every key whose last call was set(k, v) holds v and every key whose
\* last call was del is absent.
C8_CommitInstallsLastCalls ==
    \A t \in 1..MaxTx :
        LET r == kvt_commit_transaction(Eng, t)
        IN (StagedWrites(t) # EmptyMap \/ StagedDeletes(t) # {}) /\ r.err = "SUCCESS" =>
              /\ \A k \in DOMAIN StagedWrites(t) :
                    Has(r.eng.data, k) /\ r.eng.data[k].data = StagedWrites(t)[k]
              /\ \A k \in StagedDeletes(t) : ~Has(r.eng.data, k)

\* C5: under OCC the committed transactions are serializable: some serial
\* execution of exactly the committed transactions returns to each of them what
\* its calls returned and ends with the payloads the table holds.
C5_Serializable == Serializable

\* the edge keys of the table, as quadruples, read off the forward and the
\* reverse keys
ForwardEdges ==
    {ek \in EdgeKeys : Has(table_data, <<EdgeTable, ForwardKey(Space, ek)>>)}
ReverseEdges ==
    {ek \in EdgeKeys : Has(table_data, <<EdgeTable, ReverseKey(Space, ek)>>)}

\* C9: in every state reached through addEdges, deleteEdges and deleteVertices
\* the edges table holds the forward key of an edge exactly when it holds its
\* reverse key, and both hold the same value.
C9_ReverseEdgeSymmetry ==
    \A ek \in EdgeKeys :
        LET f == <<EdgeTable, ForwardKey(Space, ek)>>
            r == <<EdgeTable, ReverseKey(Space, ek)>>
        IN /\ Has(table_data, f) <=> Has(table_data, r)
           /\ Has(table_data, f) /\ Has(table_data, r) =>
                 table_data[f].data = table_data[r].data

\* the keys of the tables that name vertex v: its vertex keys, and the forward
\* and reverse keys of the edges that start or end at v
KeysNaming(data, v) ==
    {k \in DOMAIN data :
        \/ k[1] = VertexTable /\ \E t \in {1} : k[2] = encodeVertexKey(Space, PartId, v, t)
        \/ k[1] = EdgeTable /\ \E ek \in EdgeKeys :
              /\ ek.src = v \/ ek.dst = v
              /\ k[2] \in {ForwardKey(Space, ek), ReverseKey(Space, ek)}}

\* C10: when deleteVertices({v}) reports success the tables hold no vertex key
\* of v, no forward key with v as source or destination and no reverse key
\* with v at either end.
C10_DeleteVertexLeavesNoKey ==
    \A v \in Vids :
        LET r == deleteVertices(Eng, Space, <<v>>)
        IN r.ok => KeysNaming(r.eng.data, v) = {}

\* C11: when a stage of deleteVertices fails (a prefix scan returns an error, a
\* DEL fails with an error other than KEY_NOT_FOUND, or the commit fails), no
\* key has been removed from any table.
C11_FailedCascadeRemovesNothing ==
    \A ids \in IdLists :
        LET r == deleteVertices(Eng, Space, ids)
        IN r.failed => \A k \in DOMAIN table_data : Has(r.eng.data, k)

\* the key a vertex of the request, or an edge of the request, is stored under
VertexTarget(v) == <<VertexTable, encodeVertexKey(Space, PartId, v.id, v.tag)>>
EdgeTarget(ek) == <<EdgeTable, ForwardKey(Space, ek)>>

\* C12: addVertices and addEdges with ifNotExists = true write every target
\* whose key is absent beforehand, and report it as written.
C12_AbsentTargetIsWritten ==
    /\ \A vs \in VertexLists, val \in Vals :
          LET r == addVertices(Eng, Space, vs, val, TRUE)
          IN \A i \in 1..Len(vs) :
                ~Has(table_data, VertexTarget(vs[i])) =>
                    /\ r.ok /\ r.outcomes[i] = "WRITTEN"
                    /\ Has(r.eng.data, VertexTarget(vs[i]))
                    /\ r.eng.data[VertexTarget(vs[i])].data = val
    /\ \A es \in EdgeLists, val \in Vals :
          LET r == addEdges(Eng, Space, es, val, TRUE)
          IN \A i \in 1..Len(es) :
                ~Has(table_data, EdgeTarget(es[i])) =>
                    /\ r.ok /\ r.outcomes[i] = "WRITTEN"
                    /\ Has(r.eng.data, EdgeTarget(es[i]))
                    /\ r.eng.data[EdgeTarget(es[i])].data = val

\* C13: addVertices and addEdges with ifNotExists = true leave the stored
\* value of every target whose key is present beforehand as it was, and report
\* the target as already present.
C13_PresentTargetIsKept ==
    /\ \A vs \in VertexLists, val \in Vals :
          LET r == addVertices(Eng, Space, vs, val, TRUE)
          IN \A i \in 1..Len(vs) :
                Has(table_data, VertexTarget(vs[i])) =>
                    /\ r.ok /\ r.outcomes[i] = "SKIPPED"
                    /\ Has(r.eng.data, VertexTarget(vs[i]))
                    /\ r.eng.data[VertexTarget(vs[i])].data
                          = table_data[VertexTarget(vs[i])].data
    /\ \A es \in EdgeLists, val \in Vals :
          LET r == addEdges(Eng, Space, es, val, TRUE)
          IN \A i \in 1..Len(es) :
                Has(table_data, EdgeTarget(es[i])) =>
                    /\ r.ok /\ r.outcomes[i] = "SKIPPED"
                    /\ Has(r.eng.data, EdgeTarget(es[i]))
                    /\ r.eng.data[EdgeTarget(es[i])].data
                          = table_data[EdgeTarget(es[i])].data

\* C14: deleteEdges over a list that mixes stored and absent edges removes the
\* forward and the reverse key of every stored edge of the list, and the
\* KEY_NOT_FOUND of the absent ones does not fail the call.
C14_StoredEdgesAreRemoved ==
    \A es \in EdgeLists :
        LET r == deleteEdges(Eng, Space, es)
        IN (\E i \in 1..Len(es) : ~Has(table_data, EdgeTarget(es[i]))) =>
              /\ r.ok
              /\ \A i \in 1..Len(es) :
                    /\ ~Has(r.eng.data, EdgeTarget(es[i]))
                    /\ ~Has(r.eng.data, <<EdgeTable, ReverseKey(Space, es[i])>>)

\* every write of an add request is in the table afterwards: a target that was
\* absent, or that was not asked to be kept, holds the request's value
AddTookEffect(before, after, targets, val, ifNotExists) ==
    \A i \in 1..Len(targets) :
        /\ Has(after, targets[i])
        /\ (~ifNotExists \/ ~Has(before, targets[i])) => after[targets[i]].data = val

\* some results of the batch are SUCCESS and some are failures
Mixed(results) ==
    /\ \E i \in 1..Len(results) : results[i].error = "SUCCESS"
    /\ \E i \in 1..Len(results) : results[i].error \notin {"SUCCESS", "KEY_NOT_FOUND"}

\* C15: an adapter mutation reports plain success only when every requested
\* operation took effect, and reports E_PARTIAL_SUCCEEDED when some of its
\* operations succeeded and others failed.
C15_SuccessMeansAllTookEffect ==
    /\ \A vs \in VertexLists, val \in Vals, b \in BOOLEAN :
          LET r == addVertices(Eng, Space, vs, val, b)
              targets == [i \in 1..Len(vs) |-> VertexTarget(vs[i])]
          IN /\ r.code = "SUCCEEDED" =>
                    AddTookEffect(table_data, r.eng.data, targets, val, b)
             /\ Mixed(executeBatch(Eng, AddVerticesOps(Space, vs, val, b)).results)
                    => r.code = "E_PARTIAL_SUCCEEDED"
    /\ \A es \in EdgeLists, val \in Vals, b \in BOOLEAN :
          LET r == addEdges(Eng, Space, es, val, b)
              targets == [i \in 1..Len(es) |-> EdgeTarget(es[i])]
          IN /\ r.code = "SUCCEEDED" =>
                    AddTookEffect(table_data, r.eng.data, targets, val, b)
             /\ Mixed(executeBatch(Eng, AddEdgesOps(Space, es, val, b)).results)
                    => r.code = "E_PARTIAL_SUCCEEDED"
    /\ \A es \in EdgeLists :
          LET r == deleteEdges(Eng, Space, es)
          IN /\ r.code = "SUCCEEDED" =>
                    \A i \in 1..Len(es) : ~Has(r.eng.data, EdgeTarget(es[i]))
             /\ Mixed(executeBatch(Eng, DeleteEdgesOps(Space, es)).results)
                    => r.code = "E_PARTIAL_SUCCEEDED"
    /\ \A ids \in IdLists :
          LET r == deleteVertices(Eng, Space, ids)
          IN r.code = "SUCCEEDED" =>
                \A i \in 1..Len(ids) :
                    ~Has(r.eng.data, VertexTarget([id |-> ids[i], tag |-> 1]))

\* ranges [a, b) asked of scan, with a < b
ScanRanges == {<<<<"a">>, <<"b">>>>, <<<<"a">>, <<"c">>>>, <<<<"b">>, <<"c">>>>}

\* C16: in every strategy a successful scan(tx, table, a, b, limit) returns
\* only keys k with a <= k < b, in ascending key order.
C16_ScanInRangeAscending ==
    \A tx \in 0..MaxTx, rg \in ScanRanges, l \in ScanLimits :
        LET r == kvt_scan(Eng, tx, T1, rg[1], rg[2], l)
        IN r.err = "SUCCESS" =>
              \A i \in 1..Len(r.value) :
                  /\ ~StrLess(r.value[i][1], rg[1])
                  /\ StrLess(r.value[i][1], rg[2])
                  /\ i < Len(r.value) => StrLess(r.value[i][1], r.value[i + 1][1])

\* C17: in every strategy a successful scan with limit n >= 1 returns at most
\* n pairs, as a one-shot and inside a transaction with staged writes and
\* deletes.
C17_ScanWithinLimit ==
    \A tx \in 0..MaxTx, rg \in ScanRanges, l \in ScanLimits :
        LET r == kvt_scan(Eng, tx, T1, rg[1], rg[2], l)
        IN r.err = "SUCCESS" => Len(r.value) <= l

\* the sets staged by caller tx itself: Simple keeps them in the manager (a
\* one-shot stages there too while no transaction runs), 2PL and OCC in the
\* transaction, where a one-shot (tx = 0) stages nothing
OwnWrites(tx) ==
    IF strategy = "Simple"
    THEN (IF current_tx_id = tx THEN DOMAIN write_set ELSE {})
    ELSE IF tx # 0 /\ Has(transactions, tx) THEN DOMAIN transactions[tx].write_set
    ELSE {}

OwnDeletes(tx) ==
    IF strategy = "Simple"
    THEN (IF current_tx_id = tx THEN delete_set ELSE {})
    ELSE IF tx # 0 /\ Has(transactions, tx) THEN transactions[tx].delete_set
    ELSE {}

\* payloads caller tx has read before and keeps in its read_set
OwnReads(tx, ck) ==
    IF tx # 0 /\ strategy # "Simple" /\ Has(transactions, tx)
       /\ Has(transactions[tx].read_set, ck)
    THEN {transactions[tx].read_set[ck].data} ELSE {}

\* a table entry of 2PL that stands for the uncommitted new key of an open
\* transaction
Placeholder(ck) ==
    /\ strategy = "2PL"
    /\ \E t \in DOMAIN transactions :
          /\ Has(transactions[t].write_set, ck)
          /\ transactions[t].write_set[ck].metadata = 1

CommittedKey(ck) == Has(table_data, ck) /\ ~Placeholder(ck)

\* C18: in the strategies that stage writes (Simple, 2PL, OCC) a successful
\* scan, one-shot or by a transaction, returns no key or payload that exists
\* only through the uncommitted set of another open transaction (a 2PL
\* placeholder included), and omits no committed key because of the
\* uncommitted del of another transaction.
C18_ScanSeesNoForeignStaging ==
    strategy # "NoCC" =>
      \A tx \in 0..MaxTx :
        LET r == kvt_scan(Eng, tx, T1, <<"a">>, <<"b">>, MaxTx)
            returned == {r.value[i][1] : i \in 1..Len(r.value)}
        IN r.err = "SUCCESS" =>
             /\ \A i \in 1..Len(r.value) :
                   LET ck == <<T1, r.value[i][1]>>
                   IN \/ ck \in OwnWrites(tx)
                      \/ /\ CommittedKey(ck)
                         /\ r.value[i][2] \in {table_data[ck].data} \cup OwnReads(tx, ck)
             /\ \A k \in HotKeys :
                   (CommittedKey(<<T1, k>>) /\ <<T1, k>> \notin OwnDeletes(tx))
                      => k \in returned

\* what get(t, k) returns in the current state
GetNow(t, k) == kvt_get(Eng, t, T1, k)

\* the step is a set, a del, the commit or the rollback of transaction t
OwnChange(t) == ret'.tx = t /\ ret'.op \in {"set", "del", "commit", "rollback"}

\* C19: under OCC, once transaction t has read key k, a get of k by t returns
\* the same payload after every step that is not a set, a del or the end of t
\* itself, the commit of another transaction that changed k included; and a
\* transaction that has not touched k reads the value the table holds.
C19_RepeatableRead ==
    [][strategy = "OCC" =>
         \A t \in DOMAIN transactions, k \in HotKeys :
            /\ (/\ Has(transactions[t].read_set, <<T1, k>>)
                /\ GetNow(t, k).err = "SUCCESS"
                /\ ~OwnChange(t))
                  => /\ GetNow(t, k)'.err = "SUCCESS"
                     /\ GetNow(t, k)'.value = GetNow(t, k).value
            /\ (/\ ~Has(transactions[t].read_set, <<T1, k>>)
                /\ ~Has(transactions[t].write_set, <<T1, k>>)
                /\ <<T1, k>> \notin transactions[t].delete_set
                /\ Has(table_data, <<T1, k>>))
                  => /\ GetNow(t, k).err = "SUCCESS"
                     /\ GetNow(t, k).value = table_data[<<T1, k>>].data]_vars

\* a transaction holds in its read_set a payload of k that the commit of
\* another transaction has just replaced in the table
C19_Witness ==
    /\ strategy = "OCC"
    /\ ret.op = "commit" /\ ret.err = "SUCCESS"
    /\ \E t \in DOMAIN transactions, k \in HotKeys :
          /\ t # ret.tx
          /\ Has(transactions[t].read_set, <<T1, k>>)
          /\ Has(table_data, <<T1, k>>)
          /\ transactions[t].read_set[<<T1, k>>].data # table_data[<<T1, k>>].data
          /\ GetNow(t, k).err = "SUCCESS"

\* C20: in every strategy, when del(tx, k) returns SUCCESS inside a
\* transaction, a get(tx, k) that follows returns KEY_IS_DELETED or
\* KEY_NOT_FOUND, and once the transaction has committed a get of k returns
\* KEY_NOT_FOUND, whether or not the transaction had set k before.
C20_DeletedKeyIsGone ==
    \A t \in OpenTx, k \in Keys :
        LET d == kvt_del(Eng, t, T1, k)
            c == kvt_commit_transaction(d.eng, t)
        IN d.err = "SUCCESS" =>
              /\ kvt_get(d.eng, t, T1, k).err \in {"KEY_IS_DELETED", "KEY_NOT_FOUND"}
              /\ c.err = "SUCCESS" => kvt_get(c.eng, 0, T1, k).err = "KEY_NOT_FOUND"

\* C21: under Simple, begin returns TRANSACTION_ALREADY_RUNNING and opens
\* nothing while a transaction is open, and succeeds once that transaction
\* has committed or rolled back.
C21_OneTransactionAtATime ==
    strategy = "Simple" =>
        /\ current_tx_id # 0 =>
              /\ kvt_start_transaction(Eng).err = "TRANSACTION_ALREADY_RUNNING"
              /\ kvt_start_transaction(Eng).eng = Eng
              /\ LET c == kvt_commit_transaction(Eng, current_tx_id)
                     r == kvt_rollback_transaction(Eng, current_tx_id)
                 IN /\ r.err = "SUCCESS"
                    /\ kvt_start_transaction(r.eng).err = "SUCCESS"
                    /\ c.err = "SUCCESS" => kvt_start_transaction(c.eng).err = "SUCCESS"
        /\ current_tx_id = 0 => kvt_start_transaction(Eng).err = "SUCCESS"
        /\ (ret.op = "begin" /\ ret.err = "SUCCESS") => current_tx_id = ret.tx

\* a begin was refused while transaction 1 was open
C21_Witness ==
    /\ strategy = "Simple"
    /\ ret.op = "begin" /\ ret.err = "TRANSACTION_ALREADY_RUNNING"
    /\ current_tx_id = 1

\* C22: under Simple a set or del with tx_id 0 is refused with
\* ONE_SHOT_WRITE_NOT_ALLOWED (set) or ONE_SHOT_DELETE_NOT_ALLOWED (del) and
\* changes neither the table nor a staged write or delete set.
C22_OneShotWriteRefused ==
    strategy = "Simple" =>
        \A k \in Keys :
            /\ \A v \in Vals :
                  /\ kvt_set(Eng, 0, T1, k, v).err = "ONE_SHOT_WRITE_NOT_ALLOWED"
                  /\ kvt_set(Eng, 0, T1, k, v).eng = Eng
            /\ kvt_del(Eng, 0, T1, k).err = "ONE_SHOT_DELETE_NOT_ALLOWED"
            /\ kvt_del(Eng, 0, T1, k).eng = Eng

\* C23: under 2PL the committed transactions of get, set and del calls are
\* strictly serializable: run one after another, a transaction that committed
\* before another began going first, they return to each transaction what its calls returned and end with the
\* committed payloads of the table.
C23_StrictlySerializable == StrictlySerializable

\* C24: when a holder is destroyed whose transaction has not been committed
\* with success, the transaction is no longer open in the engine afterwards,
\* the table is as before, and a transaction that was still open is rolled
\* back; when its commit succeeded, the destructor calls no rollback.
C24_DestructorRollsBack ==
    [][\A h \in Holders :
         (holders[h].live /\ ~holders'[h].live /\ ret'.op = "destroy") =>
            LET id == holders[h].txId_
            IN /\ (id # 0 /\ id \notin log.commits) =>
                     /\ ~Has(transactions', id)
                     /\ table_data' = table_data
                     /\ Has(transactions, id) => ret'.err = "SUCCESS"
               /\ id \in log.commits => ret'.err = "NOT_CALLED"]_vars

\* a holder has just been destroyed and its open transaction rolled back
C24_Witness ==
    /\ ret.op = "destroy" /\ ret.tx # 0 /\ ret.err = "SUCCESS"
    /\ ~Has(transactions, ret.tx)
    /\ ret.tx \notin log.commits

\* holder h owns transaction id: it would pass the id to the engine on commit
Owns(h, id) == holders[h].live /\ holders[h].txId_ = id /\ id # 0

\* C25: no transaction id is held by two holders; after a move the source
\* holds id 0 and neither its commit, its rollback nor its destructor calls
\* the engine, the target holds the id and its commit reaches the engine when
\* the source's would have; a move assignment first rolls back the
\* uncommitted transaction the target owned.
C25_SingleOwner ==
    /\ [](\A h1, h2 \in Holders : \A id \in 1..MaxMgrTx :
            (Owns(h1, id) /\ Owns(h2, id)) => h1 = h2)
    /\ [][\A h, o \in Holders :
            (ret'.op \in {"move", "assign"} /\ ret'.h = h /\ ret'.o = o
               /\ holders[o].live /\ (ret'.op = "move" <=> ~holders[h].live)) =>
              /\ holders'[o].txId_ = 0
              /\ holders'[h].txId_ = holders[o].txId_
              /\ ~KVTTransaction_commit(Eng', holders'[o]).called
              /\ ~KVTTransaction_rollback(Eng', holders'[o]).called
              /\ ~KVTTransaction_dtor_rolls_back(holders'[o])
              /\ KVTTransaction_commit(Eng', holders'[h]).called
                    = KVTTransaction_commit(Eng', holders[o]).called
              /\ (Has(transactions', holders[o].txId_) /\ holders[o].txId_ # 0) =>
                    KVTTransaction_commit(Eng', holders'[h]).ok
                      = (kvt_commit_transaction(Eng', holders[o].txId_).err = "SUCCESS")
              /\ (ret'.op = "assign" /\ Has(transactions, holders[h].txId_)
                    /\ holders[h].txId_ # 0
                    /\ holders[h].txId_ \notin log.commits) =>
                    /\ ~Has(transactions', holders[h].txId_)
                    /\ table_data' = table_data]_vars

\* a holder of an open transaction with a staged write has just been moved
\* into a holder that owned another open transaction
C25_Witness ==
    /\ ret.op = "assign" /\ ret.tx # 0
    /\ Has(transactions, ret.tx)
    /\ \E h \in Holders : Owns(h, ret.tx)
    /\ \E o \in Holders : holders[o].live /\ holders[o].txId_ = 0
    /\ \E id \in 1..MaxMgrTx : id # ret.tx /\ id < next_tx_id
          /\ ~Has(transactions, id) /\ id \notin log.commits

\* what the commit of the first attempt of executeWithRetry(body, ...) returns
\* in the current state, "" where the attempt does not reach its commit
FirstCommit(body) ==
    Then(kvt_start_transaction(Eng), LAMBDA b :
      IF b.err # "SUCCESS" THEN ""
      ELSE Then(RunBody(b.eng, b.value, body), LAMBDA f :
             IF f.ok THEN kvt_commit_transaction(f.eng, b.value).err ELSE ""))

\* C26: executeWithRetry invokes the body at most maxRetries + 1 times and
\* exactly once when the first commit succeeds, and when the first commit
\* fails with TRANSACTION_HAS_STALE_DATA or KEY_IS_LOCKED and maxRetries is at
\* least 1 it begins a fresh transaction and invokes the body again.
C26_RetriesOnConflict ==
    \A body \in Bodies, n \in RetryCounts :
        (alive /\ next_tx_id + n <= MaxMgrTx) =>
            LET r == executeWithRetry(Eng, stats_, body, n)
            IN /\ r.invoked <= n + 1
               /\ FirstCommit(body) = "SUCCESS" => r.invoked = 1
               /\ (FirstCommit(body) \in {"TRANSACTION_HAS_STALE_DATA", "KEY_IS_LOCKED"}
                     /\ n >= 1) =>
                     r.invoked >= 2 /\ r.begun >= 2

\* C27: totalStarted is the number of transactions the manager has begun and
\* totalCommitted the number of them whose commit succeeded, whether through
\* the holder's commit(), executeWithRetry or executeBatch.
C27_CountersMatch ==
    /\ stats_.totalStarted = log.begun
    /\ stats_.totalCommitted = Cardinality(log.commits)

\* C28: decoding the vertex, edge or reverse-edge key built from a space, a
\* part, ids (string ids with ':' or a backslash included), an edge type, a
\* ranking and a tag succeeds and gives those values back.
C28_KeyRoundTrip ==
    /\ ret.op = "vertex" =>
          ret.decoded = [ok |-> TRUE, spaceId |-> log.spaceId, partId |-> log.partId,
                         vertexId |-> log.a, tagId |-> log.tagId]
    /\ ret.op = "edge" =>
          ret.decoded = [ok |-> TRUE, spaceId |-> log.spaceId, partId |-> log.partId,
                         srcId |-> log.a, edgeType |-> log.edgeType,
                         ranking |-> log.ranking, dstId |-> log.b]
    /\ ret.op = "reverse" =>
          ret.decoded = [ok |-> TRUE, spaceId |-> log.spaceId, partId |-> log.partId,
                         dstId |-> log.b, edgeType |-> log.edgeType,
                         ranking |-> log.ranking, srcId |-> log.a]

\* the edges stored in the table with destination in vids and type in
\* edgeTypes, as rows
IncomingEdges(vids, edgeTypes) ==
    {ek \in NbrEdges :
        /\ Has(table_data, <<EdgeTable, ForwardKey(Space, ek)>>)
        /\ \E i \in 1..Len(vids) : vids[i] = ek.dst
        /\ \E i \in 1..Len(edgeTypes) : edgeTypes[i] = ek.edge_type}

\* C29: getNeighbors(vids, types, IN) returns one row for each stored edge
\* whose destination is in vids and whose type is in types, with the source
\* and destination of that edge, and no other row.
C29_IncomingNeighborsExact ==
    \A vids \in NbrVids, ts \in NbrTypes :
        (CanServe /\ log.pc # "scanning") =>
            LET r == getNeighbors(Eng, Space, vids, ts, "IN_EDGE", 0)
            IN r.ok =>
                 /\ {r.rows[i] : i \in 1..Len(r.rows)} = IncomingEdges(vids, ts)
                 /\ Len(r.rows) = Cardinality(IncomingEdges(vids, ts))

\* C30: the rows of a successful getNeighbors are the rows the same call gives
\* on one of the committed contents the tables had while it ran.
C30_RowsOfOneSnapshot ==
    (ret.op = "getNeighbors" /\ ret.err = "SUCCEEDED") =>
        \E snap \in log.snaps :
            log.rows = getNeighbors([Eng EXCEPT !.data = snap], Space, log.vids,
                                    log.edgeTypes, log.edgeDirection, 0).rows

\* transaction tx is open in engine e
IsOpenIn(e, tx) ==
    CASE e.strategy = "NoCC" -> tx < e.next_tx_id
      [] e.strategy = "Simple" -> e.current_tx_id = tx
      [] OTHER -> Has(e.txs, tx)

\* after a batch by tx with results res, tx is open, the tables hold what
\* they held, tx reads back the value of its successful SETs, and after a
\* successful DEL it reads no value it staged for the key: the key is not
\* found, or found with the value the table holds
BatchLeftStaged(e, tx, ops, res) ==
    /\ e.alive
    /\ IsOpenIn(e, tx)
    /\ CommittedViewOf(e) = CommittedView
    /\ \A i \in 1..Len(ops) :
          (res[i].error = "SUCCESS"
             /\ \A j \in (i + 1)..Len(ops) : ops[j].key # ops[i].key) =>
            LET ck == <<ops[i].table_id, ops[i].key>>
                g == kvt_get(e, tx, ops[i].table_id, ops[i].key)
            IN /\ ops[i].op = "OP_SET" => g.err = "SUCCESS" /\ g.value = ops[i].value
               /\ ops[i].op = "OP_DEL" =>
                     \/ g.err # "SUCCESS"
                     \/ Has(CommittedView, ck) /\ g.value = CommittedView[ck].data

HasEnded(t) ==
    /\ t \in 1..(next_tx_id - 1)
    /\ \/ t \notin OpenTx
       \/ ret.op \in {"commit", "rollback"} /\ ret.tx = t

\* the call is refused and changes nothing
RefusedAsUnknown(r) == r.err = "TRANSACTION_NOT_FOUND" /\ r.eng = Eng

C33_WriteAndDeleteSetsDisjoint ==
    /\ strategy = "Simple" => DOMAIN write_set \cap delete_set = {}
    /\ \A t \in DOMAIN transactions :
          DOMAIN transactions[t].write_set \cap transactions[t].delete_set = {}

\* a transaction has deleted a key it had staged by set, another key is staged
C33_Witness ==
    /\ ret.op = "del" /\ ret.tx # 0 /\ ret.err = "SUCCESS"
    /\ (DOMAIN StagedWrites(ret.tx)) # {}
    /\ StagedDeletes(ret.tx) # {}
    /\ strategy # "NoCC"

\* C34: under OCC every key in the delete_set of an open transaction that is
\* in the table is also in its read_set, with a version the key has held.
C34_DeletedKeysAreRead ==
    strategy = "OCC" =>
        \A t \in DOMAIN transactions : \A k \in transactions[t].delete_set :
            Has(table_data, k) =>
                /\ Has(transactions[t].read_set, k)
                /\ transactions[t].read_set[k].metadata <= table_data[k].metadata

\* C35: under OCC a step that changes the entry of a key raises its version,
\* and the write that creates a key again after a step has removed it gives
\* it a version above the one it held when it was removed.
C35_VersionsOnlyIncrease ==
    [][strategy = "OCC" =>
         \A k \in EngineKeys :
            /\ (Has(table_data, k) /\ Has(table_data', k)
                  /\ table_data'[k] # table_data[k]) =>
                    table_data'[k].metadata > table_data[k].metadata
            /\ (Has(table_data, k) /\ ~Has(table_data', k) /\ alive') =>
                    \A v \in Vals :
                        kvt_set(Eng', 0, k[1], k[2], v).eng.data[k].metadata
                            > table_data[k].metadata]_vars

\* the keys whose lock field names transaction t
LockedBy(data, t) == {k \in DOMAIN data : data[k].metadata = t}

\* C36: under 2PL a key locked by a transaction stays locked by it in every
\* step that leaves the transaction open, and the step that ends the
\* transaction, by commit or by rollback, leaves no entry whose lock field is
\* its id.
C36_LocksHeldUntilEnd ==
    [][strategy = "2PL" =>
         \A t \in DOMAIN transactions :
            /\ Has(transactions', t) => LockedBy(table_data, t) \subseteq LockedBy(table_data', t)
            /\ (~Has(transactions', t) /\ alive') => LockedBy(table_data', t) = {}]_vars

\* the value a scan result pairs with key k: {} when the key is not returned
ScanValuesOf(results, k) == {results[i][2] : i \in {j \in 1..Len(results) : results[j][1] = k}}

\* what get returns for key k inside tx: {} when it is not found
GetValuesOf(e, tx, k) ==
    Then(kvt_get(e, tx, T1, k), LAMBDA g : IF g.err = "SUCCESS" THEN {g.value} ELSE {})

\* the keys of Keys inside [key_start, key_end)
KeysInRange(key_start, key_end) ==
    {k \in Keys : ~StrLess(k, key_start) /\ StrLess(k, key_end)}

\* C37: for every open transaction and every key of the scanned range, a scan
\* by the transaction (with a limit that cuts nothing) returns the key with
\* the value get returns for it in that transaction, and omits the key when
\* get does not find it.
C37_ScanAgreesWithGet ==
    (alive /\ strategy \in {"Simple", "2PL"}) =>
        \A t \in 1..MaxTx :
            IsOpenIn(Eng, t) =>
                Then(kvt_scan(Eng, t, T1, <<"a">>, <<"b">>, 2),
                     LAMBDA r : r.err = "SUCCESS" =>
                        \A k \in KeysInRange(<<"a">>, <<"b">>) :
                            ScanValuesOf(r.value, k) = GetValuesOf(Eng, t, k))

\* the keys transaction t read whose table entry is no longer the entry it
\* read: only other transactions and one-shot operations change the table
\* while t is open
ChangedSinceRead(data, t) ==
    {k \in DOMAIN t.read_set : ~Has(data, k) \/ data[k] # t.read_set[k]}

\* the step is a commit called on the open transaction tx
CommitOf(tx) == Has(transactions, tx) /\ ret'.op = "commit" /\ ret'.tx = tx

\* C38: an OCC commit of an open transaction returns
\* TRANSACTION_HAS_STALE_DATA only if the table entry of some key of its read
\* set is no longer the one it read, and when every key it read still has the
\* entry it read the commit returns SUCCESS.
C38_StaleOnlyWhenReadKeyChanged ==
    [][strategy = "OCC" =>
         \A tx \in 1..MaxTx :
            CommitOf(tx) =>
                /\ ret'.err = "TRANSACTION_HAS_STALE_DATA"
                       => ChangedSinceRead(table_data, transactions[tx]) # {}
                /\ ChangedSinceRead(table_data, transactions[tx]) = {}
                       => ret'.err = "SUCCESS"]_vars

\* the first half of C38 alone
C38_StaleHalf ==
    [][strategy = "OCC" =>
         \A tx \in 1..MaxTx :
            (CommitOf(tx) /\ ret'.err = "TRANSACTION_HAS_STALE_DATA")
                => ChangedSinceRead(table_data, transactions[tx]) # {}]_vars

\* C39: an OCC commit of an open transaction that passes validation finds every
\* key of the transaction's delete_set in the table, so that the delete phase
\* erases it and the commit returns SUCCESS.
C39_DeletedKeysArePresent ==
    [][strategy = "OCC" =>
         \A tx \in 1..MaxTx :
            (CommitOf(tx) /\ ~OCC_Stale(Eng, tx)) =>
                /\ \A k \in transactions[tx].delete_set : Has(table_data, k)
                /\ alive']_vars

\* the step is a commit or a rollback called on the open transaction tx
EndOf(tx) == Has(transactions, tx) /\ ret'.op \in {"commit", "rollback"} /\ ret'.tx = tx

\* C40: a commit or a rollback of an open OCC transaction, one of whose read,
\* written or deleted keys names a table that has been dropped (and maybe
\* created again under its name), trips no assertion and returns an error
\* code.
C40_EndAfterDropReturns ==
    [][strategy = "OCC" =>
         \A tx \in 1..MaxTx :
            (EndOf(tx) /\ OCC_TableGone(Eng, tx)) =>
                alive' /\ ret'.err # "ASSERT_FAILED"]_vars

\* the rollback half of C40
C40_RollbackHalf ==
    [][strategy = "OCC" =>
         \A tx \in 1..MaxTx :
            (EndOf(tx) /\ ret'.op = "rollback" /\ OCC_TableGone(Eng, tx)) =>
                alive' /\ ret'.err = "SUCCESS"]_vars

============================================================================
